---------------------------- MODULE Spec2Model ----------------------------
(***************************************************************************)
(* Verification model of llama-buddy:                                      *)
(*   - the resumable download engine  (crates/http-extra/client.rs)        *)
(*   - the manifest pull pipeline     (src/cmd/pull.rs)                    *)
(*   - the catalog sync pipeline      (src/service/model.rs, src/db)       *)
(*   - the retry driver               (crates/http-extra/retry/mod.rs)     *)
(*   - the backoff strategies         (crates/http-extra/retry/strategy)   *)
(*   - the checksum                   (crates/http-extra/sha256.rs)        *)
(*   - the earlier init command       (src/init.rs, src/db/mod.rs)         *)
(* Each subsystem has its own specification (SpecFetch, SpecPull,          *)
(* SpecSync, SpecJoin, SpecRun, SpecBatch, SpecRetry, SpecBackoff,         *)
(* SpecChecksum) over the shared variables; the pull pipeline drives the   *)
(* download engine's own steps.                                            *)
(***************************************************************************)
EXTENDS Integers, Sequences, FiniteSets, TLC

VARIABLES
    \* --- the download engine ---
    dirExists,   \* the destination directory exists
    dir,         \* the destination directory: file name -> content (bytes)
    remote,      \* the server's resources: url -> content (bytes)
    srv,         \* the server's headers: [lenHdr, ranges]
    fetch,       \* the running fetch_file call (its locals and position)
    obs,         \* what the last fetch_file call was observed to do
    nCalls,      \* number of fetch_file calls made so far
    \* --- the catalog sync pipeline ---
    listing,     \* the remote listing page: a sequence of entries
    store,       \* the metadata store (committed state of the database)
    lock,        \* the holder of the Mutex<Connection>, or "free"
    main,        \* init_local_registry / try_save_model_info / save_model_info
    prod,        \* the producer task, send
    one,         \* Consumer A, receive_one
    two,         \* Consumer B, receive_two
    html,        \* the oneshot channel of the listing page
    queue,       \* the mpsc channel of assembled entries
    hist,        \* what the current run was observed to do
    nRuns,       \* number of runs of the init command started so far
    \* --- the manifest pull pipeline ---
    manifest,    \* the manifest the registry serves for the pulled model
    reg,         \* the store's records of pulled files and the pull flag
    pull,        \* pull_model_from_registry (its locals and position)
    \* --- the retry driver ---
    rt,          \* a retry::spawn / spawn_if call (its locals and position)
    bk,          \* a backoff strategy (the iterator's fields, what it yielded)
    ck           \* a sha256::checksum call (its inputs and its result)

fetchVars == <<dirExists, dir, remote, srv, fetch, obs, nCalls>>

syncVars == <<listing, store, lock, main, prod, one, two, html, queue, hist,
              nRuns>>

pullVars == <<manifest, reg, pull, rt, bk, ck>>

vars == <<dirExists, dir, remote, srv, fetch, obs, nCalls,
          listing, store, lock, main, prod, one, two, html, queue, hist,
          nRuns, manifest, reg, pull, rt, bk, ck>>

-----------------------------------------------------------------------------
(* Bounds *)

\* longest remote resource, in bytes
MaxBody == 3
\* largest chunk response.chunk() delivers, in bytes
MaxChunk == 2
\* number of fetch_file calls in one behaviour
MaxCalls == 3
\* number of entries of the remote listing
MaxEntries == 2
\* number of variants (tags) of one catalog entry
MaxModels == 1
\* number of runs of the init command in one behaviour
MaxRuns == 2

\* number of fragment revisions the remote catalog goes through in one behaviour
MaxRevs == 1
\* number of layers of the manifest
MaxLayers == 1
\* retries the configured back-off strategy grants one download
MaxRetry == 1
\* number of runs of the pull command in one behaviour
MaxPulls == 2
\* task panics in one behaviour
MaxPanics == 1
\* durations of the longest retry strategy
MaxStrategy == 3
\* bits of the backoff strategies' integers (u64 in the code)
Width == 5
\* largest factor of a backoff strategy
MaxFactor == 2
\* values taken from one backoff strategy
MaxYield == 6
\* entries the queue holds (the capacity, scaled)
MaxQueue == 1

-----------------------------------------------------------------------------
(* Helpers on sequences and names.  A file name is a sequence of characters. *)

Min(a, b) == IF a < b THEN a ELSE b

Max(a, b) == IF a < b THEN b ELSE a

\* bytes lo..hi (1-based, inclusive) of s; empty when lo > hi
Slice(s, lo, hi) == [i \in 1..(hi - lo + 1) |-> s[lo + i - 1]]

\* str::rfind("."): the 0-based index of the last ".", or -1 (None)
rfind_dot(name) ==
    LET hits == {i \in 1..Len(name) : name[i] = "."}
    IN  IF hits = {} THEN -1
        ELSE (CHOOSE i \in hits : \A j \in hits : j <= i) - 1

\* the decimal digits of a natural number, as characters ({count} in format!)
DigitChar(d) ==
    CASE d = 0 -> "0" [] d = 1 -> "1" [] d = 2 -> "2" [] d = 3 -> "3"
      [] d = 4 -> "4" [] d = 5 -> "5" [] d = 6 -> "6" [] d = 7 -> "7"
      [] d = 8 -> "8" [] OTHER -> "9"

RECURSIVE Decimal(_)
Decimal(n) ==
    IF n < 10 THEN <<DigitChar(n)>>
    ELSE Decimal(n \div 10) \o <<DigitChar(n % 10)>>

\* format!("{left}_({count}){right}") after split_at(index), or
\* format!("{file_name}_({count})") when the name has no "."
Disambiguate(name, count) ==
    LET index == rfind_dot(name)
        tag   == <<"_", "(">> \o Decimal(count) \o <<")">>
    IN  IF index >= 0
        THEN Slice(name, 1, index) \o tag \o Slice(name, index + 1, Len(name))
        ELSE name \o tag

\* format!("{file_name}.part")
PartName(name) == name \o <<".", "p", "a", "r", "t">>

-----------------------------------------------------------------------------
(* The catalog sync pipeline at rest: no run started, an empty queue *)

IdleTask == [pc |-> "idle", result |-> "None"]

IdleMain == [pc |-> "idle", result |-> "None", old |-> <<>>]

IdleProd == [pc |-> "idle", result |-> "None", i |-> 0]

IdleTwo == [pc |-> "idle", result |-> "None", all_success |-> TRUE]

\* the oneshot channel and the mpsc channel as tokio creates them
NewHtml == "empty"

NewQueue == [items |-> <<>>, closed |-> FALSE]

NoHist ==
    [results |-> <<>>, passed |-> <<>>, fetched |-> {}, tagged |-> {},
     enq |-> <<>>, twoWrote |-> "None", ran |-> FALSE, panics |-> 0,
     prev |-> [ended |-> FALSE, flag |-> "None", committed |-> {}]]

\* the store after schema.sql: empty tables, both flags not yet completed
EmptyStore ==
    [model_info |-> <<>>, raw_data |-> {}, model |-> {},
     init_status |-> "Not Started",
     insert_model_info_completed |-> "Not Started"]

SyncQuiet ==
    /\ listing = <<>>
    /\ store = EmptyStore
    /\ lock = "free"
    /\ main = IdleMain
    /\ prod = IdleProd
    /\ one = IdleTask
    /\ two = IdleTwo
    /\ html = NewHtml
    /\ queue = NewQueue
    /\ hist = NoHist
    /\ nRuns = 0

-----------------------------------------------------------------------------
(* The manifest pull pipeline at rest *)

NoManifest == [schema_version |-> 0, media_type |-> "", blobs |-> <<>>]

\* the store before any pull: no file recorded, the pull flag not completed,
\* the manifest dialect the registry was adapted to
EmptyReg ==
    [files |-> {}, pull_status |-> "Not Started",
     manifest_schema_version |-> 2, manifest_media_type |-> "manifest.v2"]

IdlePull ==
    [pc |-> "idle", i |-> 0, attempts |-> 0, gets |-> 0, calls0 |-> 0,
     cur |-> "None", outcomes |-> <<>>, flagWritten |-> FALSE,
     prevDone |-> FALSE, runs |-> 0]

\* no retry::spawn call under way
IdleRetry ==
    [pc |-> "idle", fn |-> "", strategy |-> <<>>, fails |-> 0, cond |-> {},
     calls |-> 0, err |-> 0, duration |-> 0, taken |-> 0, slept |-> <<>>,
     result |-> <<"None", 0>>]

\* max_delay: None
NoMaxDelay == -1

\* no strategy built yet
NoBackoff ==
    [kind |-> "none", current |-> 0, next |-> 0, base |-> 0, factor |-> 1,
     max_delay |-> NoMaxDelay, out |-> <<>>]

\* no checksum call made yet
NoChecksum ==
    [called |-> FALSE, k |-> 0, content |-> <<>>, mmap_ok |-> TRUE,
     result |-> "None"]

LibQuiet ==
    /\ rt = IdleRetry
    /\ bk = NoBackoff
    /\ ck = NoChecksum

PullQuiet ==
    /\ manifest = NoManifest
    /\ reg = EmptyReg
    /\ pull = IdlePull
    /\ LibQuiet

-----------------------------------------------------------------------------
(* The file system operations the engine uses *)

\* OpenOptions::new().read(true).write(true).create(true).truncate(t).open(p)
OpenCreate(d, p, t) ==
    IF p \in DOMAIN d
    THEN IF t THEN [d EXCEPT ![p] = <<>>] ELSE d
    ELSE [q \in DOMAIN d \cup {p} |-> IF q = p THEN <<>> ELSE d[q]]

\* write_all(chunk) on a handle whose cursor is at byte offset `at`:
\* overwrites from the cursor on and extends the file as needed
WriteAt(content, at, chunk) ==
    [i \in 1..Max(Len(content), at + Len(chunk)) |->
        IF i > at /\ i <= at + Len(chunk) THEN chunk[i - at] ELSE content[i]]

\* tokio::fs::remove_file
RemoveFile(d, p) == [q \in DOMAIN d \ {p} |-> d[q]]

\* tokio::fs::rename(from, to): replaces `to` when it exists
Rename(d, from, to) ==
    [q \in (DOMAIN d \ {from}) \cup {to} |-> IF q = to THEN d[from] ELSE d[q]]

-----------------------------------------------------------------------------
(* download_dir_precondition: the name to save under and need_truncate *)

\* the number of directory entries whose file name equals file_name
SameNameCount(d, file_name) == Cardinality({n \in DOMAIN d : n = file_name})

PreconditionName(exists, d, file_name) ==
    IF ~exists THEN [file_name |-> file_name, need_truncate |-> TRUE]
    ELSE LET count == SameNameCount(d, file_name)
         IN  IF count > 0
             THEN IF Len(d[file_name]) = 0
                  THEN [file_name |-> file_name, need_truncate |-> FALSE]
                  ELSE [file_name |-> Disambiguate(file_name, count),
                        need_truncate |-> TRUE]
             ELSE [file_name |-> file_name, need_truncate |-> TRUE]


-----------------------------------------------------------------------------
(* The server *)

\* Option<u64> / Option<String> None
NoLen == -1

\* the Content-Length and Accept-Ranges headers of a response for url
Headers(url) ==
    [cl |-> IF srv.lenHdr THEN Len(remote[url]) ELSE NoLen,
     ar |-> srv.ranges]

\* get_content_length_and_accept_ranges: a HEAD, and when the HEAD reports
\* Content-Length 0 (headZero: the server misreports it, or the resource is
\* empty) a GET whose headers are read instead
get_content_length_and_accept_ranges(url, headZero) ==
    LET head == IF headZero /\ srv.lenHdr
                THEN [cl |-> 0, ar |-> srv.ranges]
                ELSE Headers(url)
    IN  IF head.cl = 0 THEN Headers(url) ELSE head

\* the body of the response to GET url with `Range: bytes=start-end`
\* (range = NoLen: no Range header); the server clamps the end
ResponseBody(url, range) ==
    IF range = NoLen THEN remote[url]
    ELSE Slice(remote[url], range + 1, Len(remote[url]))

\* the response's status is a success: 200, or 206 for a satisfiable range
RangeSatisfiable(url, range) == range = NoLen \/ range < Len(remote[url])

-----------------------------------------------------------------------------
(* fetch_file, step by step.  Every file system or network operation is one *)
(* step, so that an interruption can fall between any two of them.          *)

IdleFetch ==
    [pc |-> "idle", file_name |-> <<>>, url |-> "", path |-> <<>>,
     need_truncate |-> FALSE, probe |-> [cl |-> NoLen, ar |-> "None"],
     temp_len |-> 0, cursor |-> 0, range |-> NoLen, body |-> <<>>,
     summary |-> [status |-> "NotStarted", connet_length |-> 0,
                  resumable |-> FALSE],
     result |-> "None"]

NoObs == [dir0 |-> <<>>, exists0 |-> FALSE, sent |-> FALSE, range |-> NoLen]

\* the call: fetch_file(download) with download.file_name and fetch_from
BeginFetch(file_name, url) ==
    /\ fetch' = [IdleFetch EXCEPT !.pc = "precondition",
                                  !.file_name = file_name, !.url = url]
    /\ obs' = [dir0 |-> dir, exists0 |-> dirExists, sent |-> FALSE,
               range |-> NoLen]

\* download_dir_precondition, lines 134-196: create the directory when it is
\* missing, scan it, choose the name
DirPrecondition ==
    /\ fetch.pc = "precondition"
    /\ LET chosen == PreconditionName(dirExists, dir, fetch.file_name)
       IN  fetch' = [fetch EXCEPT !.pc = "placeholder",
                                  !.path = chosen.file_name,
                                  !.need_truncate = chosen.need_truncate]
    /\ dirExists' = TRUE
    /\ UNCHANGED <<dir, remote, srv, obs, nCalls, syncVars, pullVars>>

\* lines 197-207: the placeholder, opened with truncate(need_truncate)
OpenPlaceholder ==
    /\ fetch.pc = "placeholder"
    /\ dir' = OpenCreate(dir, fetch.path, fetch.need_truncate)
    /\ fetch' = [fetch EXCEPT !.pc = "temp"]
    /\ UNCHANGED <<dirExists, remote, srv, obs, nCalls, syncVars, pullVars>>

\* lines 208-219: the staging file, opened with truncate(need_truncate);
\* the handle's cursor is at offset 0 (no append, no seek)
OpenTemp ==
    /\ fetch.pc = "temp"
    /\ dir' = OpenCreate(dir, PartName(fetch.path), fetch.need_truncate)
    /\ fetch' = [fetch EXCEPT !.pc = "probe", !.cursor = 0]
    /\ UNCHANGED <<dirExists, remote, srv, obs, nCalls, syncVars, pullVars>>

\* line 54-55: the probe
Probe ==
    /\ fetch.pc = "probe"
    /\ \E headZero \in BOOLEAN :
         fetch' = [fetch EXCEPT
                     !.pc = "temp_len",
                     !.probe = get_content_length_and_accept_ranges(
                                   fetch.url, headZero)]
    /\ UNCHANGED <<dirExists, dir, remote, srv, obs, nCalls, syncVars, pullVars>>

\* lines 56-62: temp.metadata().len()
ReadTempLen ==
    /\ fetch.pc = "temp_len"
    /\ fetch' = [fetch EXCEPT !.pc = "decide",
                              !.temp_len = Len(dir[PartName(fetch.path)])]
    /\ UNCHANGED <<dirExists, dir, remote, srv, obs, nCalls, syncVars, pullVars>>

\* lines 63-84: resumable, the truncation of the staging file, the
\* already-complete test and the Range header
Decide ==
    /\ fetch.pc = "decide"
    /\ LET cl   == fetch.probe.cl
           ar   == fetch.probe.ar
           both == cl # NoLen /\ ar # "None"
           resumable == ar = "bytes"
           summary == IF both
                      THEN [fetch.summary EXCEPT !.resumable = resumable,
                                                 !.connet_length = cl]
                      ELSE fetch.summary
       IN  /\ dir' = IF both /\ ~resumable
                     THEN [dir EXCEPT ![PartName(fetch.path)] = <<>>]
                     ELSE dir
           /\ fetch' = IF both /\ cl = fetch.temp_len
                       THEN [fetch EXCEPT !.pc = "remove",
                                          !.summary = summary]
                       ELSE [fetch EXCEPT
                               !.pc = "send",
                               !.summary = summary,
                               !.range = IF both /\ resumable
                                            /\ fetch.temp_len > 0
                                         THEN fetch.temp_len ELSE NoLen]
    /\ UNCHANGED <<dirExists, remote, srv, obs, nCalls, syncVars, pullVars>>

\* line 85: request.send(), answered with a success status
SendOk ==
    /\ fetch.pc = "send"
    /\ RangeSatisfiable(fetch.url, fetch.range)
    /\ fetch' = [fetch EXCEPT !.pc = "chunk",
                              !.body = ResponseBody(fetch.url, fetch.range)]
    /\ obs' = [obs EXCEPT !.sent = TRUE, !.range = fetch.range]
    /\ UNCHANGED <<dirExists, dir, remote, srv, nCalls, syncVars, pullVars>>

\* a failure path that runs download_dir_after_treatment before returning
SendBadStatus_after_treatment ==
    /\ fetch.pc = "send"
    /\ dir' = Rename(RemoveFile(dir, fetch.path), PartName(fetch.path),
                     fetch.path)
    /\ fetch' = [fetch EXCEPT
                   !.pc = "done", !.result = "Ok",
                   !.summary = [fetch.summary EXCEPT !.status = "Failed"]]
    /\ obs' = [obs EXCEPT !.sent = TRUE, !.range = fetch.range]
    /\ UNCHANGED <<dirExists, remote, srv, nCalls, syncVars, pullVars>>

\* lines 86-89: a response whose status is not a success
SendBadStatus ==
    /\ fetch.pc = "send"
    /\ fetch' = [fetch EXCEPT
                   !.pc = "done", !.result = "Ok",
                   !.summary = [fetch.summary EXCEPT !.status = "Failed"]]
    /\ obs' = [obs EXCEPT !.sent = TRUE, !.range = fetch.range]
    /\ UNCHANGED <<dirExists, dir, remote, srv, nCalls, syncVars, pullVars>>

\* a chunk written straight to the file under the final name
Chunk_final_name ==
    /\ fetch.pc = "chunk"
    /\ fetch.body # <<>>
    /\ \E n \in 1..Min(MaxChunk, Len(fetch.body)) :
         /\ dir' = [dir EXCEPT ![fetch.path] =
                        WriteAt(@, fetch.cursor, SubSeq(fetch.body, 1, n))]
         /\ fetch' = [fetch EXCEPT
                        !.cursor = @ + n,
                        !.body = SubSeq(@, n + 1, Len(@))]
    /\ UNCHANGED <<dirExists, remote, srv, obs, nCalls, syncVars, pullVars>>

\* lines 90-113: one chunk: write_all at the handle's cursor, then flush
Chunk ==
    /\ fetch.pc = "chunk"
    /\ fetch.body # <<>>
    /\ \E n \in 1..Min(MaxChunk, Len(fetch.body)) :
         /\ dir' = [dir EXCEPT ![PartName(fetch.path)] =
                        WriteAt(@, fetch.cursor, SubSeq(fetch.body, 1, n))]
         /\ fetch' = [fetch EXCEPT
                        !.cursor = @ + n,
                        !.body = SubSeq(@, n + 1, Len(@))]
    /\ UNCHANGED <<dirExists, remote, srv, obs, nCalls, syncVars, pullVars>>

\* response.chunk() returns None: the body has ended
EndOfBody ==
    /\ fetch.pc = "chunk"
    /\ fetch.body = <<>>
    /\ fetch' = [fetch EXCEPT !.pc = "remove"]
    /\ UNCHANGED <<dirExists, dir, remote, srv, obs, nCalls, syncVars, pullVars>>

\* download_dir_after_treatment, lines 230-234: remove_file(file)
RemovePlaceholder ==
    /\ fetch.pc = "remove"
    /\ dir' = RemoveFile(dir, fetch.path)
    /\ fetch' = [fetch EXCEPT !.pc = "rename"]
    /\ UNCHANGED <<dirExists, remote, srv, obs, nCalls, syncVars, pullVars>>

\* download_dir_after_treatment, lines 236-245: rename(temp, file), and
\* fetch_file's Ok(summary.with_status(Success))
RenameTemp ==
    /\ fetch.pc = "rename"
    /\ dir' = Rename(dir, PartName(fetch.path), fetch.path)
    /\ fetch' = [fetch EXCEPT
                   !.pc = "done", !.result = "Ok",
                   !.summary = [fetch.summary EXCEPT !.status = "Success"]]
    /\ UNCHANGED <<dirExists, remote, srv, obs, nCalls, syncVars, pullVars>>

\* a transport error of the probe or of the body GET, a chunk error or a
\* chunk timeout: fetch_file returns Err through `?`
FetchError ==
    /\ fetch.pc \in {"probe", "send", "chunk"}
    /\ fetch' = [fetch EXCEPT !.pc = "done", !.result = "Err"]
    /\ UNCHANGED <<dirExists, dir, remote, srv, obs, nCalls, syncVars, pullVars>>

\* the steps of a running fetch_file
FetchStep ==
    \/ DirPrecondition
    \/ OpenPlaceholder
    \/ OpenTemp
    \/ Probe
    \/ ReadTempLen
    \/ Decide
    \/ SendOk
    \/ SendBadStatus
    \/ Chunk
    \/ EndOfBody
    \/ RemovePlaceholder
    \/ RenameTemp
    \/ FetchError

-----------------------------------------------------------------------------
(* The download engine on its own: a client calling fetch_file repeatedly, *)
(* with the process possibly killed between any two steps.                 *)

\* the requested file names: one with an extension, one without
FileNames == {<<"r", ".", "t">>, <<"r">>}

\* a resource of n bytes; byte i is i, so that misplaced bytes show
Body(n) == [i \in 1..n |-> i]

InitFetch ==
    /\ dirExists \in BOOLEAN
    /\ dir = <<>>
    /\ \E n \in 0..MaxBody : remote = [u \in {"u"} |-> Body(n)]
    /\ srv \in [lenHdr : BOOLEAN, ranges : {"bytes", "none", "None"}]
    /\ fetch = IdleFetch
    /\ obs = NoObs
    /\ nCalls = 0
    /\ SyncQuiet
    /\ PullQuiet

\* the client calls fetch_file
FetchCall ==
    /\ fetch.pc \in {"idle", "done"}
    /\ nCalls < MaxCalls
    /\ \E file_name \in FileNames : BeginFetch(file_name, "u")
    /\ nCalls' = nCalls + 1
    /\ UNCHANGED <<dirExists, dir, remote, srv, syncVars, pullVars>>

\* the process is killed: the files stay as they are
Interrupt ==
    /\ fetch.pc \notin {"idle", "done"}
    /\ fetch' = [fetch EXCEPT !.pc = "idle"]
    /\ UNCHANGED <<dirExists, dir, remote, srv, obs, nCalls, syncVars, pullVars>>

NextFetch == FetchCall \/ FetchStep \/ Interrupt

SpecFetch == InitFetch /\ [][NextFetch]_vars


-----------------------------------------------------------------------------
(* Claims about the download engine (SpecFetch) *)

\* the running or finished call started in the state "interrupted after K
\* bytes": the zero-length placeholder of its file name present, K bytes of
\* the resource (0 < K < N) flushed to <fileName>.part
ResumedAfter(K) ==
    LET name == fetch.file_name
        part == PartName(name)
        N    == Len(remote[fetch.url])
    IN  /\ fetch.pc # "idle"
        /\ obs.exists0
        /\ name \in DOMAIN obs.dir0
        /\ obs.dir0[name] = <<>>
        /\ part \in DOMAIN obs.dir0
        /\ Len(obs.dir0[part]) = K
        /\ 0 < K
        /\ K < N
        /\ obs.dir0[part] = SubSeq(remote[fetch.url], 1, K)

ReturnedSuccess ==
    /\ fetch.pc = "done"
    /\ fetch.result = "Ok"
    /\ fetch.summary.status = "Success"

\* C1 (as claimed): a fetch_file that starts with K bytes (0 < K < N) of an
\* N-byte resource flushed to .part and the zero-length placeholder present,
\* against a server that advertises Accept-Ranges: bytes, sends a GET whose
\* Range starts at K, and when it reports Success the final file is the
\* remote resource, byte for byte (length N, checksum matching).
C1_ResumeCorrect ==
    \A K \in 1..MaxBody :
        (ResumedAfter(K) /\ srv.ranges = "bytes" /\ srv.lenHdr) =>
            /\ obs.sent => obs.range = K
            /\ ReturnedSuccess =>
                 /\ fetch.path \in DOMAIN dir
                 /\ dir[fetch.path] = remote[fetch.url]

\* C1, the part of the claim the code keeps: the Range of the resumed GET
\* starts at K.
C1_RangeStart ==
    \A K \in 1..MaxBody :
        (ResumedAfter(K) /\ srv.ranges = "bytes" /\ srv.lenHdr /\ obs.sent)
            => obs.range = K

\* C5 (as claimed): whenever fetch_file returns status Success, the file
\* under the final name exists and its length equals summary.connet_length().
C5_SuccessLength ==
    ReturnedSuccess =>
        /\ fetch.path \in DOMAIN dir
        /\ Len(dir[fetch.path]) = fetch.summary.connet_length

report_txt == <<"r", ".", "t">>

report_1_txt == <<"r", "_", "(", "1", ")", ".", "t">>

report_2_txt == <<"r", "_", "(", "2", ")", ".", "t">>

\* C6 (as claimed): with a non-empty report.txt in the directory a download
\* of report.txt is saved as report_(1).txt, and when the directory holds the
\* saved (non-empty) report_(1).txt as well it is saved as report_(2).txt.
C6_CollisionNaming ==
    (/\ fetch.pc \notin {"idle", "precondition"}
     /\ fetch.file_name = report_txt
     /\ report_txt \in DOMAIN obs.dir0
     /\ obs.dir0[report_txt] # <<>>) =>
        /\ report_1_txt \notin DOMAIN obs.dir0 => fetch.path = report_1_txt
        /\ (/\ report_1_txt \in DOMAIN obs.dir0
            /\ obs.dir0[report_1_txt] # <<>>
            /\ report_2_txt \notin DOMAIN obs.dir0) => fetch.path = report_2_txt

\* C6, the case the code gets right: the first collision yields _(1).
C6_FirstCollision ==
    (/\ fetch.pc \notin {"idle", "precondition"}
     /\ fetch.file_name = report_txt
     /\ report_txt \in DOMAIN obs.dir0
     /\ obs.dir0[report_txt] # <<>>
     /\ report_1_txt \notin DOMAIN obs.dir0) => fetch.path = report_1_txt


-----------------------------------------------------------------------------
(* The metadata store (src/db): statements and insert_model_info *)

\* program constant: tokio::sync::mpsc::channel(256)
QueueCapacity == 256

\* the capacity scaled to the listings considered, so that the producer can
\* find the queue full
Capacity == Min(QueueCapacity, MaxQueue)

\* sha256::digest of a payload: a collision-free fingerprint of it
digest(data) == <<"sha256", data>>

\* the href of a catalog entry's detail page
HrefOf(title) == <<"/library/", title>>

\* upsert into a table keyed by k
Upsert(table, k, v) ==
    [x \in DOMAIN table \cup {k} |-> IF x = k THEN v ELSE table[x]]

\* INSERT_INTO_MODEL_INFO ... on conflict (title, href) do update
ExecModelInfo(tx, info) ==
    [tx EXCEPT !.model_info = Upsert(@, info.title, info.raw_digest)]

\* INSERT_INTO_LIBRARY_RAW_DATA ... on conflict (href) do update
ExecRawData(tx, href) == [tx EXCEPT !.raw_data = @ \cup {href}]

\* INSERT_INTO_MODEL ... on conflict (name) do update
ExecModel(tx, name) == [tx EXCEPT !.model = @ \cup {name}]

\* update config set value = 'Completed' where name = 'insert_model_info_completed'
ExecCompletedFlag(tx) ==
    [tx EXCEPT !.insert_model_info_completed = "Completed"]

\* the statements of insert_model_info for one entry, in order
NStmts(info) == 2 + Len(info.models) + 1

ExecStmt(tx, info, k) ==
    IF k = 1 THEN ExecModelInfo(tx, info)
    ELSE IF k = 2 THEN ExecRawData(tx, info.href)
    ELSE IF k <= 2 + Len(info.models) THEN ExecModel(tx, info.models[k - 2])
    ELSE ExecCompletedFlag(tx)

\* the transaction's view after its first n statements
RECURSIVE RunStmts(_, _, _)
RunStmts(conn, info, n) ==
    IF n = 0 THEN conn ELSE ExecStmt(RunStmts(conn, info, n - 1), info, n)

\* rollback_and_return without the rollback: the statements executed so far
\* are committed
rollback_and_return_commits(conn, tx, rollback_ok) ==
    [conn |-> tx, result |-> IF rollback_ok THEN "false" ELSE "err"]

\* rollback_and_return: tx.rollback()?; Ok(false)
rollback_and_return(conn, tx, rollback_ok) ==
    [conn |-> conn, result |-> IF rollback_ok THEN "false" ELSE "err"]

\* what can go wrong in one call: nothing, conn.transaction(), statement
\* `at` (and then possibly the rollback), or tx.commit()
Faults(info) ==
    {[kind |-> k, at |-> 0, rollback_ok |-> TRUE] :
        k \in {"none", "begin", "commit"}}
    \cup {[kind |-> "stmt", at |-> a, rollback_ok |-> r] :
            a \in 1..NStmts(info), r \in BOOLEAN}

\* insert_model_info(conn, info): the committed store and the result,
\* "true" / "false" for Ok(true) / Ok(false), "err" for Err
insert_model_info(conn, info, fault) ==
    IF fault.kind = "begin" THEN [conn |-> conn, result |-> "err"]
    ELSE IF fault.kind = "stmt"
    THEN rollback_and_return(conn, RunStmts(conn, info, fault.at - 1),
                             fault.rollback_ok)
    ELSE IF fault.kind = "commit" THEN [conn |-> conn, result |-> "err"]
    ELSE [conn |-> RunStmts(conn, info, NStmts(info)), result |-> "true"]

\* db::completed_init
completed_init(conn, status) == [conn EXCEPT !.init_status = status]

\* db::completed_insert_model_info
completed_insert_model_info(conn, status) ==
    [conn EXCEPT !.insert_model_info_completed = status]

\* db::check_insert_model_info_completed
check_insert_model_info_completed(conn) ==
    conn.insert_model_info_completed = "Completed"

\* db::query_model_title_and_model_info: title -> raw_digest
query_model_title_and_model_info(conn) == conn.model_info

\* db::save_library_to_library_raw_data
save_library_to_library_raw_data(conn) ==
    ExecRawData(conn, <<"/library?sort=newest">>)

-----------------------------------------------------------------------------
(* The remote catalog *)

Titles == <<"a", "b", "c", "d">>

\* a listing entry: its title, the revision of its listing fragment and the
\* number of its variants
ListingEntry(i, n) == [title |-> Titles[i], rev |-> 0, nModels |-> n]

\* the raw listing fragment of an entry, as the listing page carries it
Fragment(e) == <<"li", e.title, e.rev>>

\* the listings considered: 1..MaxEntries entries, entry i with
\* i % (MaxModels + 1) variants
Listings ==
    {[i \in 1..len |-> ListingEntry(i, i % (MaxModels + 1))] :
        len \in 1..MaxEntries}

\* the number of fragment revisions the catalog has gone through
RECURSIVE TotalRevs(_)
TotalRevs(l) == IF l = <<>> THEN 0 ELSE Head(l).rev + TotalRevs(Tail(l))

\* convert_to_model_infos: the ModelInfo of listing entry e, before its
\* detail page is fetched
ListedInfo(e) ==
    [title |-> e.title, href |-> HrefOf(e.title),
     raw_digest |-> digest(Fragment(e)), models |-> <<>>]

\* fetch_model_more_info / covert_to_model_tag: the variants of the entry
TagsOf(e) == [k \in 1..e.nModels |-> <<e.title, k>>]


-----------------------------------------------------------------------------
(* The catalog sync run: init_local_registry -> try_save_model_info ->      *)
(* save_model_info, which spawns send, receive_one and receive_two.         *)

Done(result) == [IdleTask EXCEPT !.pc = "done", !.result = result]

\* the titles whose transaction was committed in the observed run
Committed(h) ==
    {h.passed[k] : k \in {j \in 1..Len(h.passed) : h.results[j] = "true"}}

\* what is remembered of a run once it is over: whether its pipeline ran to
\* the end, the flag it left and the titles it committed
RunSummary(ended, conn, h) ==
    [ended |-> ended, flag |-> conn.insert_model_info_completed,
     committed |-> Committed(h)]

\* init_local_registry 13-59: the init command starts (a new process: fresh
\* channels and tasks); check_init_completed only logs, the command goes on
MainStart ==
    /\ main.pc \in {"idle", "done"}
    /\ nRuns < MaxRuns
    /\ nRuns' = nRuns + 1
    /\ main' = [IdleMain EXCEPT !.pc = "try_save"]
    /\ prod' = IdleProd
    /\ one' = IdleTask
    /\ two' = IdleTwo
    /\ html' = NewHtml
    /\ queue' = NewQueue
    /\ hist' = [NoHist EXCEPT
                  !.panics = hist.panics,
                  !.prev = IF main.pc = "done"
                           THEN RunSummary(hist.ran, store, hist)
                           ELSE hist.prev]
    /\ UNCHANGED <<listing, store, lock, fetchVars, pullVars>>

\* try_save_model_info 27-29: return Ok(()) when the flag reads Completed
SkipSync ==
    /\ main.pc = "try_save"
    /\ lock = "free"
    /\ check_insert_model_info_completed(store)
    /\ main' = [main EXCEPT !.pc = "completed_init", !.result = "Ok"]
    /\ UNCHANGED <<listing, store, lock, prod, one, two, html, queue, hist,
                   nRuns, fetchVars, pullVars>>

\* save_model_info 63-75: read the stored digests, create the channels,
\* spawn the three tasks
Spawn ==
    /\ main.pc = "try_save"
    /\ lock = "free"
    /\ ~check_insert_model_info_completed(store)
    /\ main' = [main EXCEPT !.pc = "join",
                            !.old = query_model_title_and_model_info(store)]
    /\ prod' = [IdleProd EXCEPT !.pc = "fetch_library"]
    /\ one' = [IdleTask EXCEPT !.pc = "wait_html"]
    /\ two' = [IdleTwo EXCEPT !.pc = "lock"]
    /\ hist' = [hist EXCEPT !.ran = TRUE]
    /\ UNCHANGED <<listing, store, lock, html, queue, nRuns, fetchVars, pullVars>>

\* send 111-116: the listing page is fetched, parsed and sent into the
\* oneshot channel
FetchLibrary ==
    /\ prod.pc = "fetch_library"
    /\ html' = "sent"
    /\ prod' = [prod EXCEPT !.pc = "next", !.i = 1]
    /\ UNCHANGED <<listing, store, lock, main, one, two, queue, hist, nRuns,
                   fetchVars, pullVars>>

\* the skip test left out: no entry is taken as unchanged
Unchanged_never(old, info) == FALSE

\* the skip test comparing the title only, not the digest
Unchanged_title_only(old, info) == info.title \in DOMAIN old

\* the old raw digest of the entry equals its new one (send 118-122)
Unchanged(old, info) ==
    info.title \in DOMAIN old /\ old[info.title] = info.raw_digest

\* the producer is about to fetch the detail page of entry prod.i
AtDetail ==
    /\ prod.pc = "next"
    /\ prod.i <= Len(listing)
    /\ ~Unchanged(main.old, ListedInfo(listing[prod.i]))

\* send: a fetch (listing, detail page or tag page) fails; send returns Err
\* and both senders are dropped
ProdFail ==
    /\ prod.pc \in {"fetch_library", "fetch_tags"} \/ AtDetail
    /\ prod' = [prod EXCEPT !.pc = "done", !.result = "Err"]
    /\ html' = IF html = "empty" THEN "dropped" ELSE html
    /\ queue' = [queue EXCEPT !.closed = TRUE]
    /\ UNCHANGED <<listing, store, lock, main, one, two, hist, nRuns,
                   fetchVars, pullVars>>

\* send 117-122: an entry whose stored digest is unchanged is skipped
ProdSkip ==
    /\ prod.pc = "next"
    /\ prod.i <= Len(listing)
    /\ Unchanged(main.old, ListedInfo(listing[prod.i]))
    /\ prod' = [prod EXCEPT !.i = @ + 1]
    /\ UNCHANGED <<listing, store, lock, main, one, two, html, queue, hist,
                   nRuns, fetchVars, pullVars>>

\* fetch_model_more_info 200-214: the detail page of a new or changed entry
FetchDetail ==
    /\ AtDetail
    /\ prod' = [prod EXCEPT !.pc = "fetch_tags"]
    /\ hist' = [hist EXCEPT !.fetched = @ \cup {listing[prod.i].title}]
    /\ UNCHANGED <<listing, store, lock, main, one, two, html, queue, nRuns,
                   fetchVars, pullVars>>

\* fetch_model_more_info 215-231 and send 125-132: the tag page is fetched
\* and the assembled entry goes into the queue (send waits while it is full)
Enqueue ==
    /\ prod.pc = "fetch_tags"
    /\ Len(queue.items) < Capacity
    /\ LET e == listing[prod.i]
           info == [ListedInfo(e) EXCEPT !.models = TagsOf(e)]
       IN  /\ queue' = [queue EXCEPT !.items = Append(@, info)]
           /\ hist' = [hist EXCEPT !.tagged = @ \cup {e.title},
                                    !.enq = Append(@, e.title)]
    /\ prod' = [prod EXCEPT !.pc = "next", !.i = @ + 1]
    /\ UNCHANGED <<listing, store, lock, main, one, two, html, nRuns,
                   fetchVars, pullVars>>

\* a producer whose queue sender is never dropped
ProdDone_keeps_sender ==
    /\ prod.pc = "next"
    /\ prod.i > Len(listing)
    /\ prod' = [prod EXCEPT !.pc = "done", !.result = "Ok"]
    /\ UNCHANGED <<listing, store, lock, main, one, two, html, queue, hist,
                   nRuns, fetchVars, pullVars>>

\* send 134: the loop has ended; Ok(()), and both senders are dropped
ProdDone ==
    /\ prod.pc = "next"
    /\ prod.i > Len(listing)
    /\ prod' = [prod EXCEPT !.pc = "done", !.result = "Ok"]
    /\ queue' = [queue EXCEPT !.closed = TRUE]
    /\ UNCHANGED <<listing, store, lock, main, one, two, html, hist, nRuns,
                   fetchVars, pullVars>>

\* receive_one 141-143: the listing page arrives
OneRecv ==
    /\ one.pc = "wait_html"
    /\ html = "sent"
    /\ html' = "taken"
    /\ one' = [one EXCEPT !.pc = "lock"]
    /\ UNCHANGED <<listing, store, lock, main, prod, two, queue, hist, nRuns,
                   fetchVars, pullVars>>

\* receive_one 141-143: the sender was dropped without a value
OneRecvErr ==
    /\ one.pc = "wait_html"
    /\ html = "dropped"
    /\ one' = Done("Err")
    /\ UNCHANGED <<listing, store, lock, main, prod, two, html, queue, hist,
                   nRuns, fetchVars, pullVars>>

\* receive_one 144-146: lock, save the page, unlock (no await in between)
OneSave ==
    /\ one.pc = "lock"
    /\ lock = "free"
    /\ \E ok \in BOOLEAN :
         /\ store' = IF ok THEN save_library_to_library_raw_data(store)
                     ELSE store
         /\ one' = Done(IF ok THEN "Ok" ELSE "Err")
    /\ UNCHANGED <<listing, lock, main, prod, two, html, queue, hist, nRuns,
                   fetchVars, pullVars>>

\* receive_two 153: the lock is taken before the loop and kept
TwoLock ==
    /\ two.pc = "lock"
    /\ lock = "free"
    /\ lock' = "two"
    /\ two' = [two EXCEPT !.pc = "recv"]
    /\ UNCHANGED <<listing, store, main, prod, one, html, queue, hist, nRuns,
                   fetchVars, pullVars>>

\* receive_two 156-160: `if let Ok(is_success) = ... && !is_success`
NextAllSuccess(all_success, result) ==
    IF result = "false" THEN FALSE ELSE all_success

\* receive_two 155-161: one entry is received and passed to insert_model_info
TwoInsert ==
    /\ two.pc = "recv"
    /\ queue.items # <<>>
    /\ LET info == Head(queue.items)
       IN  \E fault \in Faults(info) :
             LET r == insert_model_info(store, info, fault)
             IN  /\ store' = r.conn
                 /\ two' = [two EXCEPT !.all_success =
                                NextAllSuccess(@, r.result)]
                 /\ hist' = [hist EXCEPT
                               !.results = Append(@, r.result),
                               !.passed = Append(@, info.title)]
    /\ queue' = [queue EXCEPT !.items = Tail(@)]
    /\ UNCHANGED <<listing, lock, main, prod, one, html, nRuns, fetchVars, pullVars>>

\* a receive_two that leaves its loop as soon as the queue is closed
TwoFinish_on_close ==
    /\ two.pc = "recv"
    /\ queue.closed
    /\ LET status == IF two.all_success THEN "Completed" ELSE "Failed"
       IN  \E ok \in BOOLEAN :
             /\ store' = IF ok THEN completed_init(store, status) ELSE store
             /\ two' = [two EXCEPT !.pc = "done",
                                   !.result = IF ok THEN "Ok" ELSE "Err"]
             /\ hist' = [hist EXCEPT
                           !.twoWrote = IF ok THEN status ELSE @]
    /\ lock' = "free"
    /\ UNCHANGED <<listing, main, prod, one, html, queue, nRuns, fetchVars, pullVars>>

\* receive_two 162-167: recv() returned None (queue closed and empty);
\* the completion flag is written, or the write fails and Err is returned
TwoFinish ==
    /\ two.pc = "recv"
    /\ queue.items = <<>>
    /\ queue.closed
    /\ LET status == IF two.all_success THEN "Completed" ELSE "Failed"
       IN  \E ok \in BOOLEAN :
             /\ store' = IF ok THEN completed_init(store, status) ELSE store
             /\ two' = [two EXCEPT !.pc = "done",
                                   !.result = IF ok THEN "Ok" ELSE "Err"]
             /\ hist' = [hist EXCEPT
                           !.twoWrote = IF ok THEN status ELSE @]
    /\ lock' = "free"
    /\ UNCHANGED <<listing, main, prod, one, html, queue, nRuns, fetchVars, pullVars>>

\* a task panics: its JoinHandle yields a JoinError, what it owns is dropped
ProdPanic ==
    /\ prod.pc \notin {"idle", "done"}
    /\ hist.panics < MaxPanics
    /\ prod' = [prod EXCEPT !.pc = "done", !.result = "Panic"]
    /\ html' = IF html = "empty" THEN "dropped" ELSE html
    /\ queue' = [queue EXCEPT !.closed = TRUE]
    /\ hist' = [hist EXCEPT !.panics = @ + 1]
    /\ UNCHANGED <<listing, store, lock, main, one, two, nRuns, fetchVars,
                   pullVars>>

OnePanic ==
    /\ one.pc \notin {"idle", "done"}
    /\ hist.panics < MaxPanics
    /\ one' = Done("Panic")
    /\ hist' = [hist EXCEPT !.panics = @ + 1]
    /\ UNCHANGED <<listing, store, lock, main, prod, two, html, queue, nRuns,
                   fetchVars, pullVars>>

TwoPanic ==
    /\ two.pc \notin {"idle", "done"}
    /\ hist.panics < MaxPanics
    /\ two' = [two EXCEPT !.pc = "done", !.result = "Panic"]
    /\ lock' = IF two.pc = "recv" THEN "free" ELSE lock
    /\ hist' = [hist EXCEPT !.panics = @ + 1]
    /\ UNCHANGED <<listing, store, main, prod, one, html, queue, nRuns,
                   fetchVars, pullVars>>

JoinResult_first_two(p, a, b) ==
    IF p = "Ok" /\ a = "Ok" THEN "Ok" ELSE "Err"

\* save_model_info 77-95: the match on the join of the three tasks
JoinResult(p, a, b) ==
    IF p = "Ok" /\ a = "Ok" /\ b = "Ok" THEN "Ok" ELSE "Err"

\* try_join! is ready: every handle has yielded, or one has yielded a
\* JoinError
JoinReady(p, a, b) ==
    \/ p.pc = "done" /\ a.pc = "done" /\ b.pc = "done"
    \/ "Panic" \in {p.result, a.result, b.result}

Join ==
    /\ main.pc = "join"
    /\ JoinReady(prod, one, two)
    /\ main' = [main EXCEPT
                  !.pc = "set_flag",
                  !.result = JoinResult(prod.result, one.result, two.result)]
    /\ UNCHANGED <<listing, store, lock, prod, one, two, html, queue, hist,
                   nRuns, fetchVars, pullVars>>

\* try_save_model_info 30-40: the flag insert_model_info_completed
FlagAfterJoin(result) == IF result = "Ok" THEN "Completed" ELSE "Failed"

SetInsertFlag ==
    /\ main.pc = "set_flag"
    /\ lock = "free"
    /\ store' = completed_insert_model_info(store, FlagAfterJoin(main.result))
    /\ main' = [main EXCEPT !.pc = "completed_init"]
    /\ UNCHANGED <<listing, lock, prod, one, two, html, queue, hist, nRuns,
                   fetchVars, pullVars>>

\* the command returns and the runtime is dropped: a task still running is
\* cancelled
Cancel(t) ==
    IF t.pc \in {"idle", "done"} THEN t
    ELSE [t EXCEPT !.pc = "done", !.result = "Cancelled"]

\* init_local_registry 60-74: init_status follows try_save_model_info's result
CompletedInit ==
    /\ main.pc = "completed_init"
    /\ lock = "free"
    /\ store' = completed_init(store, FlagAfterJoin(main.result))
    /\ main' = [main EXCEPT !.pc = "done"]
    /\ prod' = Cancel(prod)
    /\ one' = Cancel(one)
    /\ two' = Cancel(two)
    /\ UNCHANGED <<listing, lock, html, queue, hist, nRuns, fetchVars,
                   pullVars>>

\* the process is killed: only the committed store survives
Crash ==
    /\ main.pc \notin {"idle", "done"}
    /\ main' = IdleMain
    /\ prod' = IdleProd
    /\ one' = IdleTask
    /\ two' = IdleTwo
    /\ lock' = "free"
    /\ html' = NewHtml
    /\ queue' = NewQueue
    /\ hist' = [NoHist EXCEPT !.panics = hist.panics,
                               !.prev = RunSummary(FALSE, store, hist)]
    /\ UNCHANGED <<listing, store, nRuns, fetchVars, pullVars>>

\* the remote catalog changes an entry's listing fragment between two runs
\* (a change before the first run is a different initial listing)
CatalogChange ==
    /\ main.pc \in {"idle", "done"}
    /\ nRuns >= 1
    /\ TotalRevs(listing) < MaxRevs
    /\ \E i \in DOMAIN listing : listing' = [listing EXCEPT ![i].rev = @ + 1]
    /\ UNCHANGED <<store, lock, main, prod, one, two, html, queue, hist,
                   nRuns, fetchVars, pullVars>>

FetchQuiet ==
    /\ dirExists = FALSE
    /\ dir = <<>>
    /\ remote = <<>>
    /\ srv = [lenHdr |-> FALSE, ranges |-> "None"]
    /\ fetch = IdleFetch
    /\ obs = NoObs
    /\ nCalls = 0

InitSync ==
    /\ listing \in Listings
    /\ store = EmptyStore
    /\ lock = "free"
    /\ main = IdleMain
    /\ prod = IdleProd
    /\ one = IdleTask
    /\ two = IdleTwo
    /\ html = NewHtml
    /\ queue = NewQueue
    /\ hist = NoHist
    /\ nRuns = 0
    /\ FetchQuiet
    /\ PullQuiet

NextSync ==
    \/ MainStart
    \/ SkipSync
    \/ Spawn
    \/ FetchLibrary
    \/ ProdFail
    \/ ProdSkip
    \/ FetchDetail
    \/ Enqueue
    \/ ProdDone
    \/ OneRecv
    \/ OneRecvErr
    \/ OneSave
    \/ TwoLock
    \/ TwoInsert
    \/ TwoFinish
    \/ Join
    \/ SetInsertFlag
    \/ CompletedInit
    \/ Crash
    \/ CatalogChange

SpecSync == InitSync /\ [][NextSync]_vars

\* one run of the init command over the fresh store, whose tasks may panic
JoinStart ==
    /\ nRuns = 0
    /\ MainStart

NextJoin ==
    \/ JoinStart
    \/ Spawn
    \/ FetchLibrary
    \/ ProdFail
    \/ FetchDetail
    \/ Enqueue
    \/ ProdDone
    \/ OneRecv
    \/ OneRecvErr
    \/ OneSave
    \/ TwoLock
    \/ TwoInsert
    \/ TwoFinish
    \/ ProdPanic
    \/ OnePanic
    \/ TwoPanic
    \/ Join
    \/ SetInsertFlag
    \/ CompletedInit

SpecJoin == InitSync /\ [][NextJoin]_vars

\* one run of the init command in which every call returns (no panic, no
\* kill); the runtime polls every task that is ready
NextRun ==
    \/ JoinStart
    \/ Spawn
    \/ FetchLibrary
    \/ ProdFail
    \/ FetchDetail
    \/ Enqueue
    \/ ProdDone
    \/ OneRecv
    \/ OneRecvErr
    \/ OneSave
    \/ TwoLock
    \/ TwoInsert
    \/ TwoFinish
    \/ Join
    \/ SetInsertFlag
    \/ CompletedInit

SpecRun ==
    /\ InitSync
    /\ [][NextRun]_vars
    /\ WF_vars(JoinStart \/ Spawn \/ Join \/ SetInsertFlag \/ CompletedInit)
    /\ WF_vars(FetchLibrary \/ ProdFail \/ FetchDetail \/ Enqueue \/ ProdDone)
    /\ WF_vars(OneRecv \/ OneRecvErr \/ OneSave)
    /\ WF_vars(TwoLock \/ TwoInsert \/ TwoFinish)

-----------------------------------------------------------------------------
(* The earlier init command (src/init.rs) and the batch insert_model_info    *)
(* of src/db/mod.rs: every listed entry in one transaction                  *)

\* the transaction's view after the first n statements of the batch: one
\* upsert per entry, then the update of insert_model_info_completed
RECURSIVE RunBatch(_, _, _)
RunBatch(conn, infos, n) ==
    IF n = 0 THEN conn
    ELSE IF n <= Len(infos)
    THEN ExecModelInfo(RunBatch(conn, infos, n - 1), infos[n])
    ELSE ExecCompletedFlag(RunBatch(conn, infos, n - 1))

\* db::insert_model_info(conn, model_infos): a failing upsert sets is_failed
\* and the transaction is rolled back; a failing flag update rolls back
\* too but leaves is_failed false; the result is Ok(!is_failed)
insert_model_infos(conn, infos, fault) ==
    IF fault.kind = "begin" THEN [conn |-> conn, result |-> "err"]
    ELSE IF fault.kind = "stmt"
    THEN [conn |-> conn,
          result |-> IF ~fault.rollback_ok THEN "err"
                     ELSE IF fault.at <= Len(infos) THEN "false"
                     ELSE "true"]
    ELSE IF fault.kind = "commit" THEN [conn |-> conn, result |-> "err"]
    ELSE [conn |-> RunBatch(conn, infos, Len(infos) + 1), result |-> "true"]

\* init.rs 73-91: the command starts; it returns at once when init_status
\* reads Completed and skips the catalog when the insert flag does
LegacyStart ==
    /\ main.pc \in {"idle", "done"}
    /\ nRuns < MaxRuns
    /\ nRuns' = nRuns + 1
    /\ main' = IF store.init_status = "Completed"
                  \/ check_insert_model_info_completed(store)
               THEN [IdleMain EXCEPT !.pc = "done", !.result = "Ok"]
               ELSE [IdleMain EXCEPT !.pc = "legacy_fetch"]
    /\ hist' = [NoHist EXCEPT !.ran = main'.pc = "legacy_fetch"]
    /\ UNCHANGED <<listing, store, lock, prod, one, two, html, queue,
                   fetchVars, pullVars>>

\* init.rs 93-101: fetch_model_info, then the two insert_config calls; each
\* may fail and end the command with the error
LegacyFetch ==
    /\ main.pc = "legacy_fetch"
    /\ \E fetched \in BOOLEAN, saved \in BOOLEAN :
         /\ store' = IF fetched /\ saved
                     THEN save_library_to_library_raw_data(store)
                     ELSE store
         /\ main' = IF fetched /\ saved
                    THEN [main EXCEPT !.pc = "legacy_insert"]
                    ELSE [main EXCEPT !.pc = "done", !.result = "Err"]
    /\ UNCHANGED <<listing, lock, prod, one, two, html, queue, hist, nRuns,
                   fetchVars, pullVars>>

\* init.rs 102-107: the batch insert, then completed_init(Completed) when it
\* returned true and completed_init(InProgress) when it returned false
LegacyInsert ==
    /\ main.pc = "legacy_insert"
    /\ LET infos == [i \in DOMAIN listing |-> ListedInfo(listing[i])]
       IN  \E k \in {"none", "begin", "stmt", "commit"},
              at \in 1..(Len(infos) + 1), rollback_ok \in BOOLEAN,
              flagged \in BOOLEAN :
             LET fault == [kind |-> k, at |-> at, rollback_ok |-> rollback_ok]
                 r == insert_model_infos(store, infos, fault)
                 status == IF r.result = "true" THEN "Completed"
                           ELSE "InProgress"
             IN  /\ store' = IF r.result # "err" /\ flagged
                             THEN completed_init(r.conn, status)
                             ELSE r.conn
                 /\ main' = [main EXCEPT
                               !.pc = "done",
                               !.result = IF r.result # "err" /\ flagged
                                          THEN "Ok" ELSE "Err"]
                 /\ hist' = [hist EXCEPT
                               !.results = Append(@, r.result),
                               !.passed = @ \o [i \in DOMAIN infos |->
                                                  infos[i].title]]
    /\ UNCHANGED <<listing, lock, prod, one, two, html, queue, nRuns,
                   fetchVars, pullVars>>

NextBatch ==
    \/ LegacyStart
    \/ LegacyFetch
    \/ LegacyInsert
    \/ Crash
    \/ CatalogChange

SpecBatch == InitSync /\ [][NextBatch]_vars

-----------------------------------------------------------------------------
(* The manifest pull pipeline: pull_model_from_registry drives one         *)
(* fetch_file call sequence per blob, under retry::spawn.                  *)

\* the content a digest addresses: blob 0 is the config, 1.. are the layers
Content(k) == [i \in 1..((k % MaxBody) + 1) |-> 10 * k + i]

\* the hex digest strings of the blobs, as the manifest carries them
HexName(k) == <<"h0", "h1", "h2", "h3">>[k + 1]

\* hex_decode of a digest string: the hash it denotes
hex_decode(hex) ==
    digest(Content(CHOOSE k \in 0..3 : HexName(k) = hex))

\* a BlobRef of the manifest
BlobRef(k, media_type) ==
    [media_type |-> media_type, digest |-> HexName(k),
     size |-> Len(Content(k))]

\* db::get_media_type: the media category and file type of a media type
\* the store knows; the query fails for any other
get_media_type(media_type) ==
    IF media_type = "application/params"
    THEN [ok |-> TRUE, media |-> "params", file_type |-> "json"]
    ELSE IF media_type = "application/model"
    THEN [ok |-> TRUE, media |-> "model", file_type |-> "gguf"]
    ELSE [ok |-> FALSE, media |-> "", file_type |-> ""]

\* file_name: format!("{media}-{digest}.{file_type}")
file_name(media_type, hex) ==
    LET t == get_media_type(media_type)
    IN  <<t.media, "-", hex, ".", t.file_type>>

\* the blob's download URL
BlobUrl(hex) == hex

\* a checksum that compares the lengths only
checksum_length(d, path, hex, mmap_ok) ==
    IF path \notin DOMAIN d THEN "err"
    ELSE IF d[path] = <<>> /\ ~mmap_ok THEN "err"
    ELSE IF Len(d[path]) = Len(hex_decode(hex)[2]) THEN "true"
    ELSE "false"

\* a checksum that only tests that the file can be read
checksum_readable(d, path, hex, mmap_ok) ==
    IF path \notin DOMAIN d THEN "err"
    ELSE IF d[path] = <<>> /\ ~mmap_ok THEN "err"
    ELSE "true"

\* sha256::checksum: "err" when the file cannot be opened or mapped
\* (mapping an empty file may fail), else whether the hashes are equal
checksum(d, path, hex, mmap_ok) ==
    IF path \notin DOMAIN d THEN "err"
    ELSE IF d[path] = <<>> /\ ~mmap_ok THEN "err"
    ELSE IF digest(d[path]) = hex_decode(hex) THEN "true"
    ELSE "false"

\* need_retry_download that only tests whether the file exists
need_retry_download_exists_only(d, path, hex, mmap_ok) ==
    path \notin DOMAIN d

\* need_retry_download that always asks for the download
need_retry_download_always(d, path, hex, mmap_ok) == TRUE

\* need_retry_download: the file is missing, cannot be checked or mismatches
need_retry_download(d, path, hex, mmap_ok) ==
    IF path \notin DOMAIN d THEN TRUE
    ELSE LET c == checksum(d, path, hex, mmap_ok)
         IN  IF c = "err" THEN TRUE ELSE c = "false"

\* db::save_model_file_path: (path, size, media type) recorded
save_model_file_path(r, path, size, media) ==
    [r EXCEPT !.files = @ \cup {[path |-> path, size |-> size,
                                 media |-> media]}]

\* db::set_model_pull_status
set_model_pull_status(r, status) == [r EXCEPT !.pull_status = status]

check_manifest_schema_version_only(r, schema_version, media_type) ==
    schema_version = r.manifest_schema_version

\* db::check_manifest_schema_version_and_media_type: both values equal the
\* recorded ones
check_manifest_schema_version_and_media_type(r, schema_version, media_type) ==
    IF schema_version # r.manifest_schema_version THEN FALSE
    ELSE r.manifest_media_type = media_type

ProcessingOrder_config_first(layers, config) == <<config>> \o layers

\* pull_model_from_registry 78-117: the loop over manifest.layers, then
\* manifest.config
ProcessingOrder(layers, config) == layers \o <<config>>

\* the blob being processed and its local path
CurBlob == manifest.blobs[pull.i]

CurPath == file_name(CurBlob.media_type, CurBlob.digest)

PullFrame ==
    UNCHANGED <<dirExists, dir, remote, srv, manifest, rt, bk, ck, syncVars>>

\* pull_model_from_registry 19-58: the pull command starts (a new process)
PullStart ==
    /\ pull.pc \in {"idle", "done", "panicked"}
    /\ pull.runs < MaxPulls
    /\ pull' = [IdlePull EXCEPT !.pc = "manifest", !.runs = pull.runs + 1,
                                !.calls0 = nCalls,
                                !.prevDone = (pull.pc = "done")]
    /\ fetch' = IdleFetch
    /\ obs' = NoObs
    /\ UNCHANGED <<reg, nCalls>>
    /\ PullFrame

\* 59-75: the manifest is fetched (GET) and validated; a transport error, an
\* unparsable body or a schema mismatch is fatal
GetManifest ==
    /\ pull.pc = "manifest"
    /\ \E ok \in BOOLEAN :
         pull' = [pull EXCEPT
                    !.gets = @ + 1,
                    !.i = 1,
                    !.pc = IF ok /\ check_manifest_schema_version_and_media_type(
                                          reg, manifest.schema_version,
                                          manifest.media_type)
                           THEN "blob"
                           ELSE "panicked"]
    /\ UNCHANGED <<reg, fetch, obs, nCalls>>
    /\ PullFrame

\* save_res_to_local 153-156 / file_name: get_media_type fails, "No media type"
UnknownMedia ==
    /\ pull.pc = "blob"
    /\ pull.i <= Len(manifest.blobs)
    /\ ~get_media_type(CurBlob.media_type).ok
    /\ pull' = [pull EXCEPT !.pc = "panicked"]
    /\ UNCHANGED <<reg, fetch, obs, nCalls>>
    /\ PullFrame

\* 159: need_retry_download is false, the blob is short-circuited
BlobSkip ==
    /\ pull.pc = "blob"
    /\ pull.i <= Len(manifest.blobs)
    /\ get_media_type(CurBlob.media_type).ok
    /\ \E mmap_ok \in BOOLEAN :
         ~need_retry_download(dir, CurPath, CurBlob.digest, mmap_ok)
    /\ pull' = [pull EXCEPT !.pc = "record", !.cur = "Skipped"]
    /\ UNCHANGED <<reg, fetch, obs, nCalls>>
    /\ PullFrame

\* 159-171: need_retry_download is true; retry::spawn calls fetch_file
StartDownload ==
    /\ pull.pc = "blob"
    /\ pull.i <= Len(manifest.blobs)
    /\ get_media_type(CurBlob.media_type).ok
    /\ \E mmap_ok \in BOOLEAN :
         need_retry_download(dir, CurPath, CurBlob.digest, mmap_ok)
    /\ pull' = [pull EXCEPT !.pc = "download", !.attempts = 0]
    /\ BeginFetch(CurPath, BlobUrl(CurBlob.digest))
    /\ nCalls' = nCalls + 1
    /\ UNCHANGED reg
    /\ PullFrame

\* a retry that does not consult the strategy
FetchRetry_unbounded ==
    /\ pull.pc = "download"
    /\ fetch.pc = "done"
    /\ fetch.result = "Err"
    /\ nCalls < MaxCalls * MaxPulls
    /\ pull' = [pull EXCEPT !.attempts = @ + 1]
    /\ BeginFetch(CurPath, BlobUrl(CurBlob.digest))
    /\ nCalls' = nCalls + 1
    /\ UNCHANGED reg
    /\ PullFrame

\* retry::spawn 15-18: the action failed and the strategy yields a duration
FetchRetry ==
    /\ pull.pc = "download"
    /\ fetch.pc = "done"
    /\ fetch.result = "Err"
    /\ pull.attempts < MaxRetry
    /\ pull' = [pull EXCEPT !.attempts = @ + 1]
    /\ BeginFetch(CurPath, BlobUrl(CurBlob.digest))
    /\ nCalls' = nCalls + 1
    /\ UNCHANGED reg
    /\ PullFrame

\* retry::spawn 19-23 and pull.rs 172: the strategy is exhausted, the error
\* is returned and `expect` ends the command
FetchGiveUp ==
    /\ pull.pc = "download"
    /\ fetch.pc = "done"
    /\ fetch.result = "Err"
    /\ pull.attempts >= MaxRetry
    /\ pull' = [pull EXCEPT !.pc = "panicked"]
    /\ UNCHANGED <<reg, fetch, obs, nCalls>>
    /\ PullFrame

\* retry::spawn 13: fetch_file returned Ok(summary), whatever its status
FetchReturned ==
    /\ pull.pc = "download"
    /\ fetch.pc = "done"
    /\ fetch.result = "Ok"
    /\ pull' = [pull EXCEPT !.pc = "verify"]
    /\ UNCHANGED <<reg, fetch, obs, nCalls>>
    /\ PullFrame

\* 174-179: the checksum of the file at the derived path; an error or a
\* mismatch is fatal
Verify ==
    /\ pull.pc = "verify"
    /\ \E mmap_ok \in BOOLEAN :
         pull' = IF checksum(dir, CurPath, CurBlob.digest, mmap_ok) = "true"
                 THEN [pull EXCEPT !.pc = "record", !.cur = "Downloaded"]
                 ELSE [pull EXCEPT !.pc = "panicked"]
    /\ UNCHANGED <<reg, fetch, obs, nCalls>>
    /\ PullFrame

\* 180-181: the file's path, size and media type are recorded, or the store
\* fails and `expect` ends the command
Record ==
    /\ pull.pc = "record"
    /\ \E ok \in BOOLEAN :
         IF ok
         THEN /\ reg' = save_model_file_path(
                            reg, CurPath, CurBlob.size,
                            get_media_type(CurBlob.media_type).media)
              /\ pull' = [pull EXCEPT !.pc = "blob", !.i = @ + 1,
                                      !.outcomes = Append(@, pull.cur)]
         ELSE /\ reg' = reg
              /\ pull' = [pull EXCEPT !.pc = "panicked"]
    /\ UNCHANGED <<fetch, obs, nCalls>>
    /\ PullFrame

\* 118-120: every blob is done; the pull flag is set to Completed
SetPullStatus ==
    /\ pull.pc = "blob"
    /\ pull.i > Len(manifest.blobs)
    /\ \E ok \in BOOLEAN :
         IF ok
         THEN /\ reg' = set_model_pull_status(reg, "Completed")
              /\ pull' = [pull EXCEPT !.pc = "done", !.flagWritten = TRUE]
         ELSE /\ reg' = reg
              /\ pull' = [pull EXCEPT !.pc = "panicked"]
    /\ UNCHANGED <<fetch, obs, nCalls>>
    /\ PullFrame

\* the process is killed: the files and the store stay as they are
PullCrash ==
    /\ pull.pc \notin {"idle", "done", "panicked"}
    /\ pull' = [pull EXCEPT !.pc = "idle"]
    /\ fetch' = [fetch EXCEPT !.pc = "idle"]
    /\ UNCHANGED <<reg, obs, nCalls>>
    /\ PullFrame

\* the manifests considered: 1..MaxLayers layers and the config; the schema
\* version or the media type may mismatch and the last layer's media type
\* may be unknown to the store
Manifests ==
    {[schema_version |-> v, media_type |-> t,
      blobs |-> ProcessingOrder(
                    [i \in 1..n |->
                       IF i = n THEN BlobRef(i, m)
                       ELSE BlobRef(i, "application/model")],
                    BlobRef(0, "application/params"))] :
        v \in {2, 3}, t \in {"manifest.v2", "manifest.v1"},
        n \in 1..MaxLayers,
        m \in {"application/model", "application/unknown"}}

\* what the registry serves for blob k: its content, or a damaged copy
Served(k, bad) ==
    IF k = bad THEN [Content(k) EXCEPT ![1] = 0] ELSE Content(k)

\* the model's directory before the first pull: missing, empty, or holding
\* a file at the first layer's path (empty, damaged or intact)
InitialDirs ==
    LET name == file_name("application/model", HexName(1))
    IN  {<<>>} \cup {[f \in {name} |-> c] :
                        c \in {<<>>, Served(1, 1), Content(1)}}

InitPull ==
    /\ manifest \in Manifests
    /\ \E bad \in -1..MaxLayers :
         remote = [h \in {HexName(k) : k \in 0..MaxLayers} |->
                     Served(CHOOSE k \in 0..MaxLayers : HexName(k) = h, bad)]
    /\ srv \in [lenHdr : BOOLEAN, ranges : {"bytes", "none", "None"}]
    /\ dirExists \in BOOLEAN
    /\ dir \in IF dirExists THEN InitialDirs ELSE {<<>>}
    /\ fetch = IdleFetch
    /\ obs = NoObs
    /\ nCalls = 0
    /\ reg = EmptyReg
    /\ pull = IdlePull
    /\ LibQuiet
    /\ SyncQuiet

NextPull ==
    \/ PullStart
    \/ GetManifest
    \/ UnknownMedia
    \/ BlobSkip
    \/ StartDownload
    \/ FetchStep
    \/ FetchRetry
    \/ FetchGiveUp
    \/ FetchReturned
    \/ Verify
    \/ Record
    \/ SetPullStatus
    \/ PullCrash

SpecPull == InitPull /\ [][NextPull]_vars

-----------------------------------------------------------------------------
(* The retry driver: retry::spawn and retry::spawn_if, run against the     *)
(* counting actions of the crate's tests.                                  *)

\* a strategy of n durations, in milliseconds
Strategy(n) == [i \in 1..n |-> 100 * i]

\* the action: its first `fails` invocations fail, the j-th with Err(j); the
\* later ones succeed
Action(fails, j) == IF j <= fails THEN <<"Err", j>> ELSE <<"Ok", j>>

\* spawn(strategy, action)
SpawnCall ==
    /\ rt.pc = "idle"
    /\ \E n \in 0..MaxStrategy, k \in 0..(MaxStrategy + 1) :
         rt' = [IdleRetry EXCEPT !.pc = "action", !.fn = "spawn",
                                 !.strategy = Strategy(n), !.fails = k]
    /\ UNCHANGED <<fetchVars, syncVars, manifest, reg, pull, bk, ck>>

\* spawn_if(strategy, action, condition): condition(e) is e \in cond
SpawnIfCall ==
    /\ rt.pc = "idle"
    /\ \E n \in 0..MaxStrategy, k \in 0..(MaxStrategy + 1),
          c \in SUBSET (1..(MaxStrategy + 1)) :
         rt' = [IdleRetry EXCEPT !.pc = "action", !.fn = "spawn_if",
                                 !.strategy = Strategy(n), !.fails = k,
                                 !.cond = c]
    /\ UNCHANGED <<fetchVars, syncVars, manifest, reg, pull, bk, ck>>

\* match action().await: Ok(t) => return Ok(t)
Invoke ==
    /\ rt.pc = "action"
    /\ LET r == Action(rt.fails, rt.calls + 1)
       IN  rt' = IF r[1] = "Ok"
                 THEN [rt EXCEPT !.calls = @ + 1, !.pc = "done", !.result = r]
                 ELSE [rt EXCEPT !.calls = @ + 1, !.pc = "failed",
                                 !.err = r[2]]
    /\ UNCHANGED <<fetchVars, syncVars, manifest, reg, pull, bk, ck>>

\* spawn that keeps the last duration of the strategy unused
SpawnFailed_early ==
    /\ rt.pc = "failed"
    /\ rt.fn = "spawn"
    /\ rt' = IF Len(rt.strategy) > 1
             THEN [rt EXCEPT !.strategy = Tail(@), !.taken = @ + 1,
                             !.duration = Head(rt.strategy), !.pc = "sleep"]
             ELSE [rt EXCEPT !.pc = "done", !.result = <<"Err", rt.err>>]
    /\ UNCHANGED <<fetchVars, syncVars, manifest, reg, pull, bk, ck>>

\* spawn 14-24: Err(err) => the strategy's next duration, or return Err(err)
SpawnFailed ==
    /\ rt.pc = "failed"
    /\ rt.fn = "spawn"
    /\ rt' = IF rt.strategy # <<>>
             THEN [rt EXCEPT !.strategy = Tail(@), !.taken = @ + 1,
                             !.duration = Head(rt.strategy), !.pc = "sleep"]
             ELSE [rt EXCEPT !.pc = "done", !.result = <<"Err", rt.err>>]
    /\ UNCHANGED <<fetchVars, syncVars, manifest, reg, pull, bk, ck>>

\* spawn_if that retries whatever the condition says
SpawnIfFailed_unconditional ==
    /\ rt.pc = "failed"
    /\ rt.fn = "spawn_if"
    /\ rt' = IF rt.strategy # <<>>
             THEN [rt EXCEPT !.strategy = Tail(@), !.taken = @ + 1,
                             !.duration = Head(rt.strategy), !.pc = "sleep"]
             ELSE [rt EXCEPT !.pc = "done", !.result = <<"Err", rt.err>>]
    /\ UNCHANGED <<fetchVars, syncVars, manifest, reg, pull, bk, ck>>

\* spawn_if 38-49: `if let Some(duration) = strategy.next() &&
\* condition(err.clone())`: the duration is taken first, the condition is
\* evaluated only when there was one
SpawnIfFailed ==
    /\ rt.pc = "failed"
    /\ rt.fn = "spawn_if"
    /\ rt' = IF rt.strategy # <<>>
             THEN IF rt.err \in rt.cond
                  THEN [rt EXCEPT !.strategy = Tail(@), !.taken = @ + 1,
                                  !.duration = Head(rt.strategy),
                                  !.pc = "sleep"]
                  ELSE [rt EXCEPT !.strategy = Tail(@), !.taken = @ + 1,
                                  !.pc = "done",
                                  !.result = <<"Err", rt.err>>]
             ELSE [rt EXCEPT !.pc = "done", !.result = <<"Err", rt.err>>]
    /\ UNCHANGED <<fetchVars, syncVars, manifest, reg, pull, bk, ck>>

\* tokio::time::sleep(duration).await, then the loop invokes the action again
Sleep ==
    /\ rt.pc = "sleep"
    /\ rt' = [rt EXCEPT !.slept = Append(@, rt.duration), !.pc = "action"]
    /\ UNCHANGED <<fetchVars, syncVars, manifest, reg, pull, bk, ck>>

InitRetry ==
    /\ PullQuiet
    /\ FetchQuiet
    /\ SyncQuiet

NextRetry ==
    \/ SpawnCall
    \/ SpawnIfCall
    \/ Invoke
    \/ SpawnFailed
    \/ SpawnIfFailed
    \/ Sleep

SpecRetry == InitRetry /\ [][NextRetry]_vars

-----------------------------------------------------------------------------
(* The backoff strategies: ExponentialBackoff and FibonacciBackoff. The    *)
(* fields are unsigned integers of Width bits (64 in the code).            *)

u64_MAX == 2 ^ Width - 1

\* u64::checked_mul and u64::checked_add: None (-1) on overflow
checked_mul(a, b) == IF a * b > u64_MAX THEN -1 ELSE a * b

checked_add(a, b) == IF a + b > u64_MAX THEN -1 ELSE a + b

\* next 51-55: the duration is current * factor, u64::MAX on overflow
Factored(s) ==
    IF checked_mul(s.current, s.factor) # -1
    THEN checked_mul(s.current, s.factor)
    ELSE u64_MAX

Capped_never(s) == FALSE

\* next 58-62: max_delay is set and the duration exceeds it
Capped(s) == s.max_delay # NoMaxDelay /\ Factored(s) > s.max_delay

\* an ExponentialBackoff whose multiplication wraps around
exponential_next_wrapping(s) ==
    IF Capped(s)
    THEN [s EXCEPT !.out = Append(@, s.max_delay)]
    ELSE [s EXCEPT !.current = (s.current * s.base) % (u64_MAX + 1),
                   !.out = Append(@, Factored(s))]

\* an ExponentialBackoff that advances by the factor
exponential_next_by_factor(s) ==
    IF Capped(s)
    THEN [s EXCEPT !.out = Append(@, s.max_delay)]
    ELSE [s EXCEPT !.current = IF checked_mul(s.current, s.factor) # -1
                               THEN checked_mul(s.current, s.factor)
                               ELSE u64_MAX,
                   !.out = Append(@, Factored(s))]

\* ExponentialBackoff::next 49-73
exponential_next(s) ==
    IF Capped(s)
    THEN [s EXCEPT !.out = Append(@, s.max_delay)]
    ELSE [s EXCEPT !.current = IF checked_mul(s.current, s.base) # -1
                               THEN checked_mul(s.current, s.base)
                               ELSE u64_MAX,
                   !.out = Append(@, Factored(s))]

\* a FibonacciBackoff that doubles
fibonacci_next_doubling(s) ==
    IF Capped(s)
    THEN [s EXCEPT !.out = Append(@, s.max_delay)]
    ELSE [s EXCEPT !.current = s.next,
                   !.next = IF checked_add(s.next, s.next) # -1
                            THEN checked_add(s.next, s.next)
                            ELSE u64_MAX,
                   !.out = Append(@, Factored(s))]

\* FibonacciBackoff::next 51-75
fibonacci_next(s) ==
    IF Capped(s)
    THEN [s EXCEPT !.out = Append(@, s.max_delay)]
    ELSE [s EXCEPT !.current = s.next,
                   !.next = IF checked_add(s.current, s.next) # -1
                            THEN checked_add(s.current, s.next)
                            ELSE u64_MAX,
                   !.out = Append(@, Factored(s))]

BackoffFrame == UNCHANGED <<fetchVars, syncVars, manifest, reg, pull, rt, ck>>

\* ExponentialBackoff::from_millis(base).factor(f).max_delay(d)
ExponentialNew ==
    /\ bk.kind = "none"
    /\ \E base \in 0..u64_MAX, f \in 0..MaxFactor,
          d \in {NoMaxDelay} \cup 0..u64_MAX :
         bk' = [NoBackoff EXCEPT !.kind = "exponential", !.current = base,
                                 !.base = base, !.factor = f,
                                 !.max_delay = d]
    /\ BackoffFrame

\* FibonacciBackoff::from_millis(millis).factor(f).max_delay(d)
FibonacciNew ==
    /\ bk.kind = "none"
    /\ \E millis \in 0..u64_MAX, f \in 0..MaxFactor,
          d \in {NoMaxDelay} \cup 0..u64_MAX :
         bk' = [NoBackoff EXCEPT !.kind = "fibonacci", !.current = millis,
                                 !.next = millis, !.base = millis,
                                 !.factor = f, !.max_delay = d]
    /\ BackoffFrame

ExponentialNext ==
    /\ bk.kind = "exponential"
    /\ Len(bk.out) < MaxYield
    /\ bk' = exponential_next(bk)
    /\ BackoffFrame

FibonacciNext ==
    /\ bk.kind = "fibonacci"
    /\ Len(bk.out) < MaxYield
    /\ bk' = fibonacci_next(bk)
    /\ BackoffFrame

InitBackoff ==
    /\ PullQuiet
    /\ FetchQuiet
    /\ SyncQuiet

NextBackoff ==
    \/ ExponentialNew
    \/ FibonacciNew
    \/ ExponentialNext
    \/ FibonacciNext

SpecBackoff == InitBackoff /\ [][NextBackoff]_vars

-----------------------------------------------------------------------------
(* sha256::checksum applied to a file and the hex digest of a byte string   *)

\* a byte with bit j flipped
FlipBit(v, j) == IF (v \div (2 ^ j)) % 2 = 1 THEN v - 2 ^ j ELSE v + 2 ^ j

\* the files considered: each byte string b whose digest is known, and the
\* files that differ from it by one flipped bit, a cut or an appended byte
Files ==
    UNION {{Content(k)}
             \cup {[Content(k) EXCEPT ![i] = FlipBit(@, j)] :
                     i \in 1..Len(Content(k)), j \in 0..7}
             \cup {SubSeq(Content(k), 1, n) : n \in 0..(Len(Content(k)) - 1)}
             \cup {Append(Content(k), 0)} : k \in 0..3}

\* test_checksum: the file is written, then checksum(file, digest) is called
ChecksumCall ==
    /\ ~ck.called
    /\ \E k \in 0..3, c \in Files, mmap_ok \in BOOLEAN :
         ck' = [called |-> TRUE, k |-> k, content |-> c, mmap_ok |-> mmap_ok,
                result |-> checksum([p \in {"1.txt"} |-> c], "1.txt",
                                    HexName(k), mmap_ok)]
    /\ UNCHANGED <<fetchVars, syncVars, manifest, reg, pull, rt, bk>>

InitChecksum ==
    /\ PullQuiet
    /\ FetchQuiet
    /\ SyncQuiet

NextChecksum == ChecksumCall

SpecChecksum == InitChecksum /\ [][NextChecksum]_vars

-----------------------------------------------------------------------------
(* Catalog sync claims *)

\* the run has passed an entry to insert_model_info and it was not persisted
SomeInsertFailed ==
    \E k \in 1..Len(hist.results) : hist.results[k] # "true"

\* insert_model_info rolled an entry back and reported it: Ok(false)
SomeInsertFalse ==
    \E k \in 1..Len(hist.results) : hist.results[k] = "false"

\* C3: if persisting an entry failed during a run (here: was rolled back and
\* reported as such), then once the init command has finished both completion
\* flags read Failed
C3_FailedEntryFlags ==
    (main.pc = "done" /\ hist.ran /\ SomeInsertFalse)
        => /\ store.init_status = "Failed"
           /\ store.insert_model_info_completed = "Failed"

\* the set of titles of a sequence of titles
TitleSet(q) == {q[k] : k \in 1..Len(q)}

\* C4: during the first run, at every point where the process may be killed,
\* insert_model_info_completed reads Completed only if the producer has
\* finished and every entry it enqueued has been committed
C4_FlagOnlyAfterAll ==
    (nRuns = 1 /\ main.pc \notin {"idle", "done"}
     /\ store.insert_model_info_completed = "Completed")
        => /\ prod.pc = "done"
           /\ prod.result = "Ok"
           /\ TitleSet(hist.enq) \subseteq Committed(hist)

\* C9: receive_two writes the completion flag only once the queue is closed
\* and drained; it writes Completed only if every insert_model_info call
\* returned Ok(true), and Failed if any returned Ok(false) or Err
C9_FlagFollowsInserts ==
    (two.pc = "done" /\ hist.twoWrote # "None")
        => /\ queue.closed
           /\ queue.items = <<>>
           /\ hist.passed = hist.enq
           /\ hist.twoWrote = IF SomeInsertFailed THEN "Failed"
                              ELSE "Completed"

\* the step is a call of insert_model_info that did not return Ok(true)
FailedInsertStep ==
    /\ Len(hist'.results) = Len(hist.results) + 1
    /\ hist'.results[Len(hist'.results)] # "true"

\* C10: a call of insert_model_info in which a statement (or the begin, the
\* commit) fails leaves the store as it was - no row of the entry visible,
\* earlier entries still committed - and receive_two stays in its loop,
\* holding the connection
C10_AtomicInsert ==
    [][FailedInsertStep =>
         /\ store' = store
         /\ two'.pc = "recv"
         /\ lock' = "two"]_vars

\* C10 witness: the first entry of a run failed and none of its rows is in
\* the store; receive_two went on and committed the next entry
C10_Witness ==
    /\ Len(hist.results) >= 2
    /\ hist.results[1] = "false"
    /\ hist.results[2] = "true"
    /\ hist.passed[1] \notin DOMAIN store.model_info
    /\ HrefOf(hist.passed[1]) \notin store.raw_data
    /\ hist.passed[2] \in DOMAIN store.model_info
    /\ two.pc = "recv"

\* the previous run went through its pipeline and left the flag Failed
AfterFailedRun == hist.prev.ended /\ hist.prev.flag = "Failed"

\* the producer of the current run has gone through the whole listing and
\* the run is not over yet
ProducerFinished ==
    /\ main.pc \in {"join", "set_flag", "completed_init"}
    /\ prod.pc = "done"
    /\ prod.result = "Ok"

ListedTitles == {listing[i].title : i \in DOMAIN listing}

\* the titles whose stored raw digest is absent or differs from the listing's
ChangedTitles ==
    {listing[i].title : i \in
        {j \in DOMAIN listing :
            \/ listing[j].title \notin DOMAIN main.old
            \/ main.old[listing[j].title] # digest(Fragment(listing[j]))}}

Enqueued(t) == Cardinality({k \in 1..Len(hist.enq) : hist.enq[k] = t})

\* the listing entries the running producer has dealt with
Processed ==
    {j \in DOMAIN listing :
        /\ prod.pc \in {"next", "fetch_tags", "done"}
        /\ j < prod.i}

\* C11: the producer fetches neither page of an entry whose raw digest equals
\* the stored one and enqueues nothing for it; for every other entry it has
\* dealt with it fetched the detail page and the tag page and enqueued
\* exactly one record
C11_DigestSkip ==
    main.pc = "join"
        => \A j \in DOMAIN listing :
             LET t == listing[j].title
             IN  IF j \in Processed /\ t \in ChangedTitles
                 THEN /\ t \in hist.fetched
                      /\ t \in hist.tagged
                      /\ Enqueued(t) = 1
                 ELSE /\ t \notin hist.tagged
                      /\ Enqueued(t) = 0
                      /\ t \in hist.fetched
                           => /\ t \in ChangedTitles
                              /\ j = prod.i
                              /\ prod.pc \in {"fetch_tags", "done"}

\* C11 witness: the producer has gone through a listing of which it skipped
\* one entry and fetched and enqueued another
C11_Witness ==
    /\ main.pc = "join"
    /\ prod.pc = "done"
    /\ prod.result = "Ok"
    /\ ListedTitles \ ChangedTitles # {}
    /\ \E t \in ChangedTitles : t \in hist.tagged /\ Enqueued(t) = 1

TaskResults == {prod.result, one.result, two.result}

Joined == main.pc \in {"set_flag", "completed_init", "done"} /\ hist.ran

\* C12: once save_model_info has returned, its result is an error whenever
\* the producer, Consumer A or Consumer B returned an error or panicked, and
\* it is Ok only if all three tasks returned Ok
C12_JoinSurfacesFailure ==
    Joined =>
        /\ TaskResults \cap {"Err", "Panic"} # {} => main.result = "Err"
        /\ main.result = "Ok" => TaskResults = {"Ok"}
        /\ main.result \in {"Ok", "Err"}

\* Consumer B panicked while the producer and Consumer A returned Ok, and
\* save_model_info returned an error
C12_Witness ==
    /\ Joined
    /\ two.result = "Panic"
    /\ prod.result = "Ok"
    /\ one.result = "Ok"
    /\ main.result = "Err"

-----------------------------------------------------------------------------
(* Manifest pull claims *)

\* blob k of the manifest has its file at the derived path, the file's hash
\* is the blob's digest, and (path, size, media type) is recorded
BlobDone(k) ==
    LET b    == manifest.blobs[k]
        path == file_name(b.media_type, b.digest)
    IN  /\ get_media_type(b.media_type).ok
        /\ path \in DOMAIN dir
        /\ digest(dir[path]) = hex_decode(b.digest)
        /\ [path |-> path, size |-> b.size,
            media |-> get_media_type(b.media_type).media] \in reg.files

AllBlobsDone == \A k \in 1..Len(manifest.blobs) : BlobDone(k)

\* C2: when the pull has returned normally every blob of the manifest (the
\* layers and the config) is on disk at its derived path with a matching
\* hash and is recorded; the pull flag is written Completed only then, and
\* at no earlier point of the run
C2_PullContract ==
    /\ (pull.pc = "done" \/ pull.flagWritten) => AllBlobsDone
    /\ pull.flagWritten => pull.pc = "done"
    /\ (pull.runs = 1 /\ pull.pc # "done") => reg.pull_status # "Completed"

\* C2 witness: a pull has returned normally after downloading a blob
C2_Witness ==
    /\ pull.pc = "done"
    /\ pull.flagWritten
    /\ Len(pull.outcomes) = Len(manifest.blobs)
    /\ \E k \in 1..Len(pull.outcomes) : pull.outcomes[k] = "Downloaded"
    /\ reg.pull_status = "Completed"

AllSkipped == \A k \in 1..Len(pull.outcomes) : pull.outcomes[k] = "Skipped"

\* C7 as stated: a pull that follows a pull which returned normally, with no
\* change in between, performs no network GET at all and skips every blob
C7_ZeroGets ==
    (pull.prevDone /\ pull.pc = "done")
        => /\ pull.gets = 0
           /\ nCalls = pull.calls0
           /\ AllSkipped

\* C7 as amended: such a pull performs exactly one GET, that of the manifest;
\* it never calls fetch_file (no probe, no blob GET) and short-circuits every
\* blob as Skipped
C7_OnlyManifestGet ==
    pull.prevDone
        => /\ nCalls = pull.calls0
           /\ pull.pc \notin {"download", "verify"}
           /\ AllSkipped
           /\ pull.gets <= 1
           /\ pull.pc = "done"
                => /\ pull.gets = 1
                   /\ Len(pull.outcomes) = Len(manifest.blobs)

\* C7 witness: the second pull has returned, every blob skipped
C7_Witness ==
    /\ pull.prevDone
    /\ pull.pc = "done"
    /\ Len(pull.outcomes) = Len(manifest.blobs)
    /\ AllSkipped
    /\ pull.gets = 1

\* the file at the blob's path is there and its hash differs from the digest
Mismatch ==
    /\ CurPath \in DOMAIN dir
    /\ digest(dir[CurPath]) # hex_decode(CurBlob.digest)

\* C13: a digest mismatch found by the check after a download ends the pull
\* at once: the blob is neither downloaded again nor recorded, no later blob
\* is processed, and the ended command takes no further step (the next step
\* of the pipeline is the start of a new pull command)
C13_MismatchFatal ==
    [][/\ (pull.pc = "verify" /\ Mismatch)
           => /\ pull'.pc \in {"panicked", "idle"}
              /\ pull'.i = pull.i
              /\ reg' = reg
              /\ nCalls' = nCalls
              /\ dir' = dir
       /\ pull.pc = "panicked"
           => /\ pull'.pc = "manifest"
              /\ pull'.runs = pull.runs + 1
              /\ reg' = reg
              /\ dir' = dir
              /\ nCalls' = nCalls]_vars

\* C13 witness: the first blob was downloaded, its file holds bytes that
\* mismatch, the pull has ended with blobs left and nothing recorded
C13_Witness ==
    /\ pull.pc = "panicked"
    /\ pull.i = 1
    /\ pull.i < Len(manifest.blobs)
    /\ pull.cur = "None"
    /\ fetch.pc = "done"
    /\ fetch.result = "Ok"
    /\ fetch.summary.status = "Success"
    /\ Mismatch
    /\ dir[CurPath] # <<>>
    /\ reg.files = {}

\* C14: when the store write that records a blob fails, the pull pipeline
\* leaves the pull-completion flag reading Failed
C14_StoreFailureFlagsFailed ==
    [][(pull.pc = "record" /\ pull'.pc = "panicked")
           => reg'.pull_status = "Failed"]_vars

SchemaMismatch ==
    \/ manifest.schema_version # reg.manifest_schema_version
    \/ manifest.media_type # reg.manifest_media_type

\* C15: when the manifest's (schemaVersion, mediaType) pair differs from the
\* recorded one, the pull ends at the validation: no blob is downloaded,
\* short-circuited or recorded and the pull flag is not written
C15_SchemaMismatchFatal ==
    SchemaMismatch
        => /\ pull.pc \in {"idle", "manifest", "panicked"}
           /\ nCalls = 0
           /\ fetch = IdleFetch
           /\ reg = EmptyReg
           /\ pull.outcomes = <<>>
           /\ ~pull.flagWritten

\* C15 witness: the schema version matches, the media type does not, and the
\* pull has ended after the manifest GET
C15_Witness ==
    /\ manifest.schema_version = reg.manifest_schema_version
    /\ manifest.media_type # reg.manifest_media_type
    /\ pull.pc = "panicked"
    /\ pull.gets = 1
    /\ pull.runs = 1

IsConfig(b) == b.media_type = "application/params"

InBlob ==
    /\ pull.pc \in {"blob", "download", "verify", "record"}
    /\ pull.i <= Len(manifest.blobs)

FetchRank ==
    LET at == CASE fetch.pc = "precondition" -> 10
                [] fetch.pc = "placeholder" -> 9
                [] fetch.pc = "temp" -> 8
                [] fetch.pc = "probe" -> 7
                [] fetch.pc = "temp_len" -> 6
                [] fetch.pc = "decide" -> 5
                [] fetch.pc = "send" -> 4
                [] fetch.pc = "chunk" -> 3
                [] fetch.pc = "remove" -> 2
                [] fetch.pc = "rename" -> 1
                [] OTHER -> 0
    IN  at * (MaxBody + 1) + Len(fetch.body)

DownloadRank == (MaxRetry - pull.attempts) * 11 * (MaxBody + 1) + FetchRank

\* C17: a blob's download is attempted at most retry + 1 times (MaxRetry is
\* the configured retry count): a fetch_file call is made again only after an
\* error and while the strategy has a delay left, a returned summary ends the
\* attempts, and the error of the last attempt ends the pull; the retry loop
\* terminates: each of its steps lowers the bound on the steps left
C17_BoundedAttempts ==
    [][/\ pull.pc = "download" => pull.attempts <= MaxRetry
       /\ (pull.pc = "download" /\ pull'.pc = "download")
            => /\ DownloadRank' < DownloadRank
               /\ DownloadRank' >= 0
       /\ nCalls' # nCalls
            => /\ nCalls' = nCalls + 1
               /\ \/ pull.pc = "blob" /\ pull'.attempts = 0
                  \/ /\ pull.pc = "download"
                     /\ fetch.pc = "done"
                     /\ fetch.result = "Err"
                     /\ pull'.attempts = pull.attempts + 1
                     /\ pull'.attempts <= MaxRetry
                     /\ pull'.i = pull.i
       /\ (pull.pc = "download" /\ fetch.pc = "done" /\ fetch.result = "Ok")
            => /\ nCalls' = nCalls
               /\ pull'.pc \in {"verify", "idle"}
       /\ (/\ pull.pc = "download"
           /\ fetch.pc = "done"
           /\ fetch.result = "Err"
           /\ pull.attempts = MaxRetry)
            => /\ nCalls' = nCalls
               /\ pull'.pc \in {"panicked", "idle"}]_vars

\* C17 witness: the first blob's download failed retry + 1 times and the
\* pull has ended
C17_Witness ==
    /\ pull.pc = "panicked"
    /\ pull.runs = 1
    /\ pull.i = 1
    /\ pull.attempts = MaxRetry
    /\ nCalls = MaxRetry + 1
    /\ fetch.pc = "done"
    /\ fetch.result = "Err"

-----------------------------------------------------------------------------
(* Retry driver claims *)

\* the number of durations of the strategy the call was given
StrategyLen == rt.taken + Len(rt.strategy)

\* C18: with a strategy of n durations and an action that first succeeds at
\* its (k+1)-th invocation, retry::spawn invokes the action exactly
\* min(k, n) + 1 times; it returns Ok at the first success, and when the
\* strategy is exhausted it returns the last error without sleeping again
\* (one sleep per retry, the durations in the strategy's order)
C18_SpawnInvocations ==
    rt.fn = "spawn"
        => /\ rt.calls <= Min(rt.fails, StrategyLen) + 1
           /\ rt.pc = "done"
                => /\ rt.calls = Min(rt.fails, StrategyLen) + 1
                   /\ Len(rt.slept) = rt.calls - 1
                   /\ rt.slept = Strategy(rt.taken)
                   /\ IF rt.fails <= StrategyLen
                      THEN rt.result = <<"Ok", rt.fails + 1>>
                      ELSE /\ rt.result = <<"Err", StrategyLen + 1>>
                           /\ rt.strategy = <<>>
                           /\ Len(rt.slept) = StrategyLen

\* C18 witness: a strategy of two durations, an action that keeps failing:
\* three invocations, two sleeps, the third error returned
C18_Witness ==
    /\ rt.fn = "spawn"
    /\ rt.pc = "done"
    /\ StrategyLen = 2
    /\ rt.fails = 3
    /\ rt.calls = 3
    /\ rt.slept = Strategy(2)
    /\ rt.result = <<"Err", 3>>

\* C19: when spawn_if returns, the number of durations taken from the
\* strategy equals the number of retries performed
C19_TakenEqualsRetries ==
    (rt.fn = "spawn_if" /\ rt.pc = "done")
        => /\ rt.taken = Len(rt.slept)
           /\ rt.taken = rt.calls - 1

\* the failures at which spawn_if stops: the condition is false, or the
\* strategy has no duration left
StopsAt ==
    {j \in 1..rt.fails : j \notin rt.cond \/ j > StrategyLen}

FirstStop == CHOOSE j \in StopsAt : \A i \in StopsAt : j <= i

\* C20: spawn_if stops at the first failure for which the condition is false
\* or at which the strategy is exhausted, returns exactly that failure, and
\* has invoked the action exactly as many times; without such a failure it
\* returns the first success
C20_SpawnIfStops ==
    rt.fn = "spawn_if"
        => /\ rt.calls <= IF StopsAt # {} THEN FirstStop ELSE rt.fails + 1
           /\ rt.pc = "done"
                => IF StopsAt # {}
                   THEN /\ rt.result = <<"Err", FirstStop>>
                        /\ rt.calls = FirstStop
                   ELSE /\ rt.result = <<"Ok", rt.fails + 1>>
                        /\ rt.calls = rt.fails + 1

\* C20 witness: failures 1, 2, 3, ..., the condition e < 3, a strategy of
\* three durations: Err(3) after three invocations
C20_Witness ==
    /\ rt.fn = "spawn_if"
    /\ rt.pc = "done"
    /\ rt.cond = {1, 2}
    /\ StrategyLen = 3
    /\ rt.fails > 3
    /\ rt.calls = 3
    /\ rt.result = <<"Err", 3>>

-----------------------------------------------------------------------------
(* Backoff strategy claims *)

\* one step of the strategy at hand
StrategyNext(s) ==
    IF s.kind = "exponential" THEN exponential_next(s) ELSE fibonacci_next(s)

RECURSIVE Iterate(_, _)
Iterate(s, n) == IF n = 0 THEN s ELSE Iterate(StrategyNext(s), n - 1)

\* what the strategy at hand would have yielded so far without max_delay
UncappedOut ==
    Iterate([bk EXCEPT !.current = bk.base, !.next = bk.base,
                       !.max_delay = NoMaxDelay, !.out = <<>>],
            Len(bk.out)).out

\* C21: with max_delay set, for either strategy, no yielded value exceeds
\* max_delay; the values are those of the uncapped sequence before the first
\* step whose uncapped value exceeds max_delay and exactly max_delay from
\* that step on
C21_MaxDelayCaps ==
    (bk.kind # "none" /\ bk.max_delay # NoMaxDelay)
        => \A i \in 1..Len(bk.out) :
             /\ bk.out[i] <= bk.max_delay
             /\ bk.out[i] =
                  IF \E j \in 1..i : UncappedOut[j] > bk.max_delay
                  THEN bk.max_delay
                  ELSE UncappedOut[i]

\* C21 witness: Fibonacci(1).max_delay(5) has yielded 1, 1, 2, 3, 5, 5
C21_Witness ==
    /\ bk.kind = "fibonacci"
    /\ bk.max_delay = 5
    /\ bk.out = <<1, 1, 2, 3, 5, 5>>

\* C22: the values ExponentialBackoff yields without max_delay never
\* decrease (a multiplication that overflows yields u64::MAX, it does not
\* wrap around), and after a value equal to u64::MAX every value is u64::MAX
C22_ExponentialMonotone ==
    (bk.kind = "exponential" /\ bk.max_delay = NoMaxDelay)
        => \A i \in 1..Len(bk.out) :
             /\ bk.out[i] \in 0..u64_MAX
             /\ \A j \in (i + 1)..Len(bk.out) :
                  /\ bk.out[i] <= bk.out[j]
                  /\ bk.out[i] = u64_MAX => bk.out[j] = u64_MAX

\* C22 witness: from_millis(u64::MAX - 1) has yielded u64::MAX - 1, u64::MAX,
\* u64::MAX
C22_Witness ==
    /\ bk.kind = "exponential"
    /\ bk.max_delay = NoMaxDelay
    /\ bk.base = u64_MAX - 1
    /\ bk.factor = 1
    /\ bk.out = <<u64_MAX - 1, u64_MAX, u64_MAX>>

\* C23: FibonacciBackoff with factor 1 and no max_delay yields base, base,
\* and then the sum of the two preceding values, u64::MAX when the sum
\* overflows
C23_FibonacciSeries ==
    (bk.kind = "fibonacci" /\ bk.factor = 1 /\ bk.max_delay = NoMaxDelay)
        => \A i \in 1..Len(bk.out) :
             bk.out[i] = IF i <= 2 THEN bk.base
                         ELSE Min(bk.out[i - 2] + bk.out[i - 1], u64_MAX)

\* C23 witness: from_millis(1) has yielded 1, 1, 2, 3, 5, 8
C23_Witness ==
    /\ bk.kind = "fibonacci"
    /\ bk.factor = 1
    /\ bk.max_delay = NoMaxDelay
    /\ bk.out = <<1, 1, 2, 3, 5, 8>>

\* base ^ n, left unmultiplied once it is beyond u64::MAX
RECURSIVE Power(_, _)
Power(base, n) ==
    IF n = 0 THEN 1
    ELSE IF Power(base, n - 1) > u64_MAX THEN Power(base, n - 1)
    ELSE Power(base, n - 1) * base

\* C24: the n-th value ExponentialBackoff yields without max_delay is
\* base^n * factor, as long as neither base^n nor base^n * factor overflows
C24_ExponentialValues ==
    (bk.kind = "exponential" /\ bk.max_delay = NoMaxDelay)
        => \A n \in 1..Len(bk.out) :
             (/\ Power(bk.base, n) <= u64_MAX
              /\ Power(bk.base, n) * bk.factor <= u64_MAX)
                 => bk.out[n] = Power(bk.base, n) * bk.factor

\* C24 witness: from_millis(2).factor(2) has yielded 4, 8, 16
C24_Witness ==
    /\ bk.kind = "exponential"
    /\ bk.max_delay = NoMaxDelay
    /\ bk.base = 2
    /\ bk.factor = 2
    /\ bk.out = <<4, 8, 16>>

-----------------------------------------------------------------------------
(* Checksum claims *)

-----------------------------------------------------------------------------
(* Download engine claims: failures of the body GET and of a chunk read *)

\* C26: the step on which the body GET is answered with a non-success status
\* ends fetch_file with Ok and status Failed, changes no file, and leaves the
\* zero-length placeholder and the staging file in place
C26_BadStatusKeepsFiles ==
    [][(fetch.pc = "send" /\ fetch'.summary.status = "Failed")
          => /\ fetch'.pc = "done"
             /\ fetch'.result = "Ok"
             /\ dir' = dir
             /\ fetch.path \in DOMAIN dir'
             /\ dir'[fetch.path] = <<>>
             /\ PartName(fetch.path) \in DOMAIN dir']_vars

\* C26 witness: fetch_file has returned Failed while the staging file holds
\* the bytes of an earlier attempt next to the zero-length placeholder
C26_Witness ==
    /\ fetch.pc = "done"
    /\ fetch.result = "Ok"
    /\ fetch.summary.status = "Failed"
    /\ fetch.path \in DOMAIN dir
    /\ dir[fetch.path] = <<>>
    /\ PartName(fetch.path) \in DOMAIN dir
    /\ dir[PartName(fetch.path)] # <<>>

\* a chunk read timed out after at least one chunk had been flushed, and
\* fetch_file returned the error
TimedOutAfterFlush ==
    /\ fetch.pc = "done"
    /\ fetch.result = "Err"
    /\ fetch.cursor > 0

\* C27, the part the code keeps: the step on which a chunk read times out
\* returns the error, changes no file and leaves the zero-length placeholder
C27_TimeoutKeepsChunks ==
    [][(fetch.pc = "chunk" /\ fetch'.result = "Err")
          => /\ fetch'.pc = "done"
             /\ dir' = dir
             /\ fetch.path \in DOMAIN dir'
             /\ dir'[fetch.path] = <<>>
             /\ PartName(fetch.path) \in DOMAIN dir']_vars

\* C27 (as claimed): a chunk timeout returns the error and keeps the flushed
\* chunks and the zero-length placeholder, and the next fetch_file for the
\* same file name chooses the same final name and opens its .part file
\* without truncating it
C27_TimeoutResumable ==
    [][/\ (fetch.pc = "chunk" /\ fetch'.result = "Err")
            => /\ fetch'.pc = "done"
               /\ dir' = dir
               /\ fetch.path \in DOMAIN dir'
               /\ dir'[fetch.path] = <<>>
       /\ (/\ TimedOutAfterFlush
           /\ fetch'.pc = "precondition"
           /\ fetch'.file_name = fetch.file_name)
            => LET chosen == PreconditionName(dirExists', dir',
                                              fetch'.file_name)
               IN  /\ chosen.file_name = fetch.path
                   /\ ~chosen.need_truncate]_vars

-----------------------------------------------------------------------------
(* Download engine claims: the already-complete test and the truncation *)

\* C28 (as claimed): the decision of lines 63-84 skips the body GET and goes
\* to the promotion, with resumable and connet_length set from the probe,
\* exactly when the probed content length equals the length the staging file
\* has after the truncation for a non-resumable server; otherwise it goes on
\* to the GET
C28_SkipIffComplete ==
    [][(fetch.pc = "decide" /\ fetch'.pc \in {"remove", "send"})
          => LET current == Len(dir'[PartName(fetch.path)])
             IN  /\ fetch'.pc = "remove" <=> fetch.probe.cl = current
                 /\ fetch'.pc = "remove"
                      => /\ fetch'.summary.connet_length = fetch.probe.cl
                         /\ fetch'.summary.resumable
                              = (fetch.probe.ar = "bytes")]_vars

\* the stale comparison of C28: Success was reported without a GET although
\* the promoted file is empty and the resource is not
PromotedEmpty ==
    /\ ReturnedSuccess
    /\ ~obs.sent
    /\ dir[fetch.path] = <<>>
    /\ remote[fetch.url] # <<>>

\* C29 (as claimed): when the probe's Accept-Ranges value is not "bytes", or
\* is absent, the decision of lines 63-84 leaves the staging file empty,
\* whatever it held, and sets no Range header
C29_NonResumableTruncates ==
    [][(/\ fetch.pc = "decide"
        /\ fetch'.pc \in {"remove", "send"}
        /\ fetch.probe.ar # "bytes")
          => /\ dir'[PartName(fetch.path)] = <<>>
             /\ fetch'.range = NoLen]_vars

\* C29, the part the code keeps: no Range header is set, and the staging
\* file is emptied when both headers are present
C29_TruncatesWhenBothHeaders ==
    [][(/\ fetch.pc = "decide"
        /\ fetch'.pc \in {"remove", "send"}
        /\ fetch.probe.ar # "bytes")
          => /\ fetch'.range = NoLen
             /\ (fetch.probe.cl # NoLen /\ fetch.probe.ar # "None")
                  => dir'[PartName(fetch.path)] = <<>>]_vars

-----------------------------------------------------------------------------
(* Download engine claims: what the final name can hold *)

\* the name is a staging name <finalName>.part
IsPart(p) == Len(p) > 5 /\ SubSeq(p, Len(p) - 4, Len(p)) = PartName(<<>>)

\* C30: a step changes what a final name holds only by making it a
\* zero-length file, by removing it, or by renaming the staging file onto it;
\* the rename comes after the body has ended and after the placeholder was
\* removed, and moves the staging file whole
C30_FinalNameNeverPartial ==
    [][/\ \A p \in DOMAIN dir' :
            (~IsPart(p) /\ (p \notin DOMAIN dir \/ dir'[p] # dir[p]))
              => \/ dir'[p] = <<>>
                 \/ /\ fetch.pc = "rename"
                    /\ p = fetch.path
                    /\ fetch.body = <<>>
                    /\ dir'[p] = dir[PartName(p)]
                    /\ PartName(p) \notin DOMAIN dir'
       /\ (fetch.pc = "rename" /\ dir' # dir) => fetch.path \notin DOMAIN dir
       /\ (fetch.pc = "remove" /\ dir' # dir)
            => /\ fetch.body = <<>>
               /\ fetch.path \notin DOMAIN dir'
               /\ fetch'.pc = "rename"]_vars

\* C30 witness: the process was killed while the body was being written:
\* part of the body is in the staging file, the rest was never read, and the
\* final name holds the zero-length placeholder
C30_Witness ==
    /\ fetch.pc = "idle"
    /\ fetch.cursor > 0
    /\ fetch.body # <<>>
    /\ fetch.path \in DOMAIN dir
    /\ dir[fetch.path] = <<>>
    /\ PartName(fetch.path) \in DOMAIN dir
    /\ dir[PartName(fetch.path)] # <<>>

-----------------------------------------------------------------------------
(* Download engine claims: interruption and pre-existing files *)

\* fetch_file was interrupted (killed, or returned an error) after it had
\* chosen its final name, and bytes are flushed to that name's .part file
InterruptedWithBytes ==
    /\ fetch.pc \in {"idle", "done"}
    /\ ~ReturnedSuccess
    /\ fetch.path # <<>>
    /\ PartName(fetch.path) \in DOMAIN dir
    /\ dir[PartName(fetch.path)] # <<>>

\* C31 (as claimed): with a server that supports byte ranges, the call that
\* follows an interrupted call for the same file name keeps the bytes flushed
\* to the .part file: it chooses the same final name and opens the .part
\* file without truncating it
C31_InterruptKeepsBytes ==
    [][(/\ InterruptedWithBytes
        /\ srv.ranges = "bytes"
        /\ fetch'.pc = "precondition"
        /\ fetch'.file_name = fetch.file_name)
          => LET chosen == PreconditionName(dirExists', dir',
                                            fetch'.file_name)
             IN  /\ chosen.file_name = fetch.path
                 /\ ~chosen.need_truncate]_vars

\* the interruption between the removal of the placeholder and the rename,
\* followed by a call that has emptied the complete staging file
LostPromotion ==
    /\ fetch.pc = "probe"
    /\ fetch.path \notin DOMAIN obs.dir0
    /\ PartName(fetch.path) \in DOMAIN obs.dir0
    /\ obs.dir0[PartName(fetch.path)] = remote[fetch.url]
    /\ remote[fetch.url] # <<>>
    /\ srv.ranges = "bytes"
    /\ dir[PartName(fetch.path)] = <<>>

\* C32 (as claimed): every non-empty file that was in the directory under a
\* final name when fetch_file was called is still there, with the same
\* bytes, at every later point of the call
C32_KeepsFinishedFiles ==
    \A p \in DOMAIN obs.dir0 :
        (~IsPart(p) /\ obs.dir0[p] # <<>>)
            => /\ p \in DOMAIN dir
               /\ dir[p] = obs.dir0[p]

-----------------------------------------------------------------------------
(* Manifest pull claims: the re-download of a mismatching blob *)

\* C33 (as claimed): when the blob's file existed, non-empty and not
\* matching its digest, and the download engine has returned Success with a
\* file that matches the digest, that file is the one at the blob's derived
\* path, over which the checksum is then computed
C33_RedownloadVerified ==
    (/\ pull.pc = "verify"
     /\ ReturnedSuccess
     /\ CurPath \in DOMAIN obs.dir0
     /\ obs.dir0[CurPath] # <<>>
     /\ digest(obs.dir0[CurPath]) # hex_decode(CurBlob.digest)
     /\ fetch.path \in DOMAIN dir
     /\ digest(dir[fetch.path]) = hex_decode(CurBlob.digest))
        => /\ fetch.path = CurPath
           /\ checksum(dir, CurPath, CurBlob.digest, TRUE) = "true"

-----------------------------------------------------------------------------
(* Manifest pull claims: the pull flag after a fatal error *)

\* C34 (as claimed): after a pull run that ended with a fatal error the
\* pull-completion flag does not read Completed
C34_FatalNotCompleted ==
    pull.pc = "panicked" => reg.pull_status # "Completed"

\* a pull that failed fatally after an earlier pull had completed
StaleCompleted ==
    /\ pull.pc = "panicked"
    /\ pull.prevDone
    /\ ~pull.flagWritten
    /\ reg.pull_status = "Completed"

-----------------------------------------------------------------------------
(* Catalog sync claims: the flags of a run whose producer failed *)

\* C35 (as claimed): in a run whose producer has returned an error neither
\* completion flag was written as Completed: receive_two did not write
\* init_status = Completed, and insert_model_info_completed, which did not
\* read Completed when the run began, does not read it now
C35_ProducerFailureNoCompleted ==
    (hist.ran /\ prod.pc = "done" /\ prod.result = "Err")
        => /\ hist.twoWrote # "Completed"
           /\ store.insert_model_info_completed # "Completed"

\* the producer failed at the listing fetch and receive_two, finding the
\* queue closed and empty, wrote init_status = Completed all the same
CompletedAfterListingFailure ==
    /\ hist.ran
    /\ prod.result = "Err"
    /\ hist.enq = <<>>
    /\ html = "dropped"
    /\ hist.twoWrote = "Completed"
    /\ store.init_status = "Completed"

-----------------------------------------------------------------------------
(* Catalog sync claims: the store lock and the order of the writes *)

\* C36 (as claimed): receive_two holds the store lock for one upsert at a
\* time: while it waits for the next entry the lock is free, so receive_one
\* can write between two upserts
C36_LockPerWrite ==
    two.pc = "recv" => lock = "free"

\* receive_one has the listing page and waits for the lock, which
\* receive_two keeps while the producer is still sending
OneWaitsForQueue ==
    /\ one.pc = "lock"
    /\ lock = "two"
    /\ ~queue.closed
    /\ hist.passed # <<>>

-----------------------------------------------------------------------------
(* Catalog sync claims: termination *)

\* the three tasks have finished and the init command has returned
Terminated ==
    /\ main.pc = "done"
    /\ prod.pc = "done"
    /\ one.pc = "done"
    /\ two.pc = "done"
    /\ prod.result # "Cancelled"
    /\ one.result # "Cancelled"
    /\ two.result # "Cancelled"
    /\ lock = "free"

\* C37: once save_model_info has spawned the three tasks, the producer,
\* receive_one and receive_two all finish, the join returns and the command
\* ends, whatever the interleaving and also when more entries have changed
\* than the queue can hold
C37_SyncTerminates == (main.pc = "join") ~> Terminated

\* C37 witness: the run has ended after the producer enqueued more entries
\* than the queue can hold, each of which receive_two received
C37_Witness ==
    /\ Terminated
    /\ Len(hist.enq) > Capacity
    /\ hist.passed = hist.enq
    /\ prod.result = "Ok"

\* the titles of the entries waiting in the queue, in order
QueuedTitles == [k \in 1..Len(queue.items) |-> queue.items[k].title]

-----------------------------------------------------------------------------
(* Store claims: the result of insert_model_info *)

\* the step is a call of insert_model_info that returned Ok(true)
TrueInsertStep ==
    /\ Len(hist'.results) = Len(hist.results) + 1
    /\ hist'.results[Len(hist'.results)] = "true"

\* C39 (as claimed): a call of insert_model_info returns true only if its
\* transaction was committed: the rows of every entry passed to it and the
\* flag update are in the store
C39_TrueOnlyIfCommitted ==
    [][TrueInsertStep
          => /\ \A k \in (Len(hist.passed) + 1)..Len(hist'.passed) :
                  hist'.passed[k] \in DOMAIN store'.model_info
             /\ store'.insert_model_info_completed = "Completed"]_vars

\* the batch insert returned true for a rolled-back transaction and the
\* command marked the initialization Completed over an empty catalog
CompletedOverEmptyCatalog ==
    /\ main.pc = "done"
    /\ main.result = "Ok"
    /\ hist.results = <<"true">>
    /\ store.init_status = "Completed"
    /\ store.model_info = <<>>
    /\ store.insert_model_info_completed # "Completed"

=============================================================================
